---- MODULE Spec2Model ----
(***************************************************************************)
(* Team orchestration engine of langchain-rust (src/agent/team): the       *)
(* TeamExecutor that runs the child agents of a team concurrently,         *)
(* sequentially or as a hybrid list of steps and aggregates their results. *)
(*                                                                         *)
(* Strings are sequences of one-character strings, so that formatting and  *)
(* joining are computed and not assumed.  Keys of the input map are TLC    *)
(* strings.  Step indices are 0-based as in the source; sequences are      *)
(* 1-based, so step k is steps[k + 1].                                     *)
(*                                                                         *)
(* An async fn is modelled at the granularity of the Rust future model: a  *)
(* future makes progress only when it is polled.  The environment decides  *)
(* when a child's plan() is able to return and what it returns             *)
(* (PlanFinish, PlanAction, PlanError) and when a tokio timer's deadline   *)
(* passes (TimerFires, GlobalTimerFires); the engine observes all of that  *)
(* in Poll, in the order in which tokio::time::timeout and                 *)
(* futures::future::try_join_all poll their inner futures.                 *)
(***************************************************************************)
EXTENDS Integers, Sequences, FiniteSets, TLC

VARIABLES
    config,      \* TeamExecutor.config: the validated TeamAgentConfig
    pc,          \* "idle" | "running" | "returned": the position of execute()
    call,        \* the arguments of the current execute() call
    futures,     \* every execute_child_agent future created by this call, in creation order
    loc,         \* the local variables of the pattern routine that is running
    ret,         \* what the call returned
    completion,  \* the futures whose plan() became ready, in that order
    clock,       \* the monotonic clock std::time::Instant reads, in ticks
    memory,      \* the shared conversation memory behind config.memory, and its lock
    human        \* the HumanAgent or TeamHumanAgent, and what its interfaces were asked

vars == <<config, pc, call, futures, loc, ret, completion, clock, memory, human>>

----------------------------------------------------------------------------
\* Bounds of the model.

\* The largest number of children of a generated team.
MaxChildren == 2

\* The global timeout TeamAgentConfig::default() sets, in seconds.
DefaultGlobalTimeout == 300

\* The clock stops after MaxTicks ticks; a millisecond is TicksPerMilli ticks.
MaxTicks == 2
TicksPerMilli == 2

\* Instant::elapsed: the time since start_time, in ticks.
elapsed(start_time) == clock - start_time

\* Duration::as_millis() as u64: the whole milliseconds of a duration.
as_millis(ticks) == ticks \div TicksPerMilli

----------------------------------------------------------------------------
\* Strings.

Digits == <<"0", "1", "2", "3", "4", "5", "6", "7", "8", "9">>

\* Display of a u64: its decimal digits.
RECURSIVE u64_to_string(_)
u64_to_string(n) ==
    IF n < 10 THEN <<Digits[n + 1]>>
    ELSE u64_to_string(n \div 10) \o <<Digits[(n % 10) + 1]>>

\* [String]::join(sep)
RECURSIVE join(_, _)
join(strs, sep) ==
    IF Len(strs) = 0 THEN <<>>
    ELSE IF Len(strs) = 1 THEN strs[1]
    ELSE strs[1] \o sep \o join(Tail(strs), sep)

ActionInsteadOfFinish == <<"C", "h", "i", "l", "d", " ", "a", "g", "e", "n", "t", " ", "r", "e", "t", "u", "r", "n", "e", "d", " ", "A", "c", "t", "i", "o", "n", " ", "i", "n", "s", "t", "e", "a", "d", " ", "o", "f", " ", "F", "i", "n", "i", "s", "h">>
GlobalTimeoutExceeded == <<"G", "l", "o", "b", "a", "l", " ", "t", "i", "m", "e", "o", "u", "t", " ", "e", "x", "c", "e", "e", "d", "e", "d">>
TimedOutAfter == <<" ", "t", "i", "m", "e", "d", " ", "o", "u", "t", " ", "a", "f", "t", "e", "r", " ">>
Seconds == <<" ", "s", "e", "c", "o", "n", "d", "s">>
ErrorColon == <<"E", "r", "r", "o", "r", ":", " ">>
ColonSp == <<":", " ">>
BlankLine == <<"\n", "\n">>

----------------------------------------------------------------------------
\* Option, Result, serde_json::Value and the PromptArgs map.

None == [some |-> FALSE]
Some(v) == [some |-> TRUE, v |-> v]

Ok(v) == [tag |-> "Ok", value |-> v]
Err(e) == [tag |-> "Err", error |-> e]
Pending == [tag |-> "Pending"]

\* json!(s) of a string and json!(v) of a Vec<Value>.
JsonString(s) == [json |-> "string", s |-> s]
JsonArray(a) == [json |-> "array", a |-> a]

\* HashMap::insert: the key is added, or its value replaced.
insert(m, k, v) == [x \in (DOMAIN m) \cup {k} |-> IF x = k THEN v ELSE m[x]]

\* AgentError::OtherError(msg)
OtherError(msg) == [variant |-> "OtherError", msg |-> msg]

----------------------------------------------------------------------------
\* The configuration (config.rs).  max_iterations and is_team_agent are
\* fields that neither the executor nor the team agent reads; they are left
\* out.  memory and use_coordination_prompts are the fields
\* TeamAgent::execute_team reads (agent.rs:95-100) and the builder sets
\* (builder.rs:114-124).

Concurrent == [tag |-> "Concurrent", steps |-> <<>>]
Sequential == [tag |-> "Sequential", steps |-> <<>>]
Hybrid(steps) == [tag |-> "Hybrid", steps |-> steps]

ExecutionStep(agent_ids, concurrent, dependencies) ==
    [agent_ids |-> agent_ids, concurrent |-> concurrent, dependencies |-> dependencies]

\* ChildAgentConfig::new
ChildAgentConfig_new(id, agent) ==
    [id |-> id, agent |-> agent, timeout |-> None, critical |-> TRUE]

\* ChildAgentConfig::new_team_agent
new_team_agent(id, agent) == ChildAgentConfig_new(id, agent)

with_critical(child, critical) == [child EXCEPT !.critical = critical]

\* TeamAgentConfig::default
TeamAgentConfig_default ==
    [child_agents |-> <<>>,
     execution_pattern |-> Sequential,
     break_on_error |-> TRUE,
     global_timeout |-> Some(DefaultGlobalTimeout),
     prefix |-> None,
     memory |-> None,
     use_coordination_prompts |-> FALSE]

add_child_agent(cfg, child) == [cfg EXCEPT !.child_agents = Append(@, child)]
with_execution_pattern(cfg, pattern) == [cfg EXCEPT !.execution_pattern = pattern]

DuplicateAgentId == <<"D", "u", "p", "l", "i", "c", "a", "t", "e", " ", "a", "g", "e", "n", "t", " ", "I", "D", ":", " ">>
UnknownAgentId == <<"U", "n", "k", "n", "o", "w", "n", " ", "a", "g", "e", "n", "t", " ", "I", "D", " ", "i", "n", " ", "e", "x", "e", "c", "u", "t", "i", "o", "n", " ", "s", "t", "e", "p", ":", " ">>
InvalidDependencyStep == <<"I", "n", "v", "a", "l", "i", "d", " ", "d", "e", "p", "e", "n", "d", "e", "n", "c", "y", ":", " ", "s", "t", "e", "p", " ">>
CannotDependOnStep == <<" ", "c", "a", "n", "n", "o", "t", " ", "d", "e", "p", "e", "n", "d", " ", "o", "n", " ", "s", "t", "e", "p", " ">>
MustBeEarlier == <<" ", "(", "m", "u", "s", "t", " ", "b", "e", " ", "e", "a", "r", "l", "i", "e", "r", ")">>
AgentSp == <<"A", "g", "e", "n", "t", " ">>
NotIncludedInAnyStep == <<" ", "i", "s", " ", "n", "o", "t", " ", "i", "n", "c", "l", "u", "d", "e", "d", " ", "i", "n", " ", "a", "n", "y", " ", "e", "x", "e", "c", "u", "t", "i", "o", "n", " ", "s", "t", "e", "p">>

\* The least element of a non-empty set of integers.
Min(S) == CHOOSE x \in S : \A y \in S : x <= y

ChildIds(cfg) == {cfg.child_agents[i].id : i \in 1..Len(cfg.child_agents)}

\* Mutant of validate_step: a step without agents, and a step that lists an
\* agent twice, are rejected.
validate_step_wants_a_set(cfg, step_idx) ==
    LET step == cfg.execution_pattern.steps[step_idx + 1]
        unknown == {i \in 1..Len(step.agent_ids) : step.agent_ids[i] \notin ChildIds(cfg)}
        baddeps == {i \in 1..Len(step.dependencies) : step.dependencies[i] >= step_idx}
        again == {i \in 1..Len(step.agent_ids) :
                     \E j \in 1..(i - 1) : step.agent_ids[j] = step.agent_ids[i]}
    IN  IF unknown # {}
        THEN Err(UnknownAgentId \o step.agent_ids[Min(unknown)])
        ELSE IF Len(step.agent_ids) = 0 \/ again # {}
        THEN Err(UnknownAgentId)
        ELSE IF baddeps # {}
        THEN Err(InvalidDependencyStep \o u64_to_string(step_idx) \o CannotDependOnStep
                 \o u64_to_string(step.dependencies[Min(baddeps)]) \o MustBeEarlier)
        ELSE Ok(<<>>)

\* Mutant of validate_step: a step may depend on itself.
validate_step_allows_self(cfg, step_idx) ==
    LET step == cfg.execution_pattern.steps[step_idx + 1]
        unknown == {i \in 1..Len(step.agent_ids) : step.agent_ids[i] \notin ChildIds(cfg)}
        baddeps == {i \in 1..Len(step.dependencies) : step.dependencies[i] > step_idx}
    IN  IF unknown # {}
        THEN Err(UnknownAgentId \o step.agent_ids[Min(unknown)])
        ELSE IF baddeps # {}
        THEN Err(InvalidDependencyStep \o u64_to_string(step_idx) \o CannotDependOnStep
                 \o u64_to_string(step.dependencies[Min(baddeps)]) \o MustBeEarlier)
        ELSE Ok(<<>>)

\* The check of one step of a Hybrid pattern (config.rs:130-144): first the
\* agent ids in order, then the dependencies in order.
validate_step(cfg, step_idx) ==
    LET step == cfg.execution_pattern.steps[step_idx + 1]
        unknown == {i \in 1..Len(step.agent_ids) : step.agent_ids[i] \notin ChildIds(cfg)}
        baddeps == {i \in 1..Len(step.dependencies) : step.dependencies[i] >= step_idx}
    IN  IF unknown # {}
        THEN Err(UnknownAgentId \o step.agent_ids[Min(unknown)])
        ELSE IF baddeps # {}
        THEN Err(InvalidDependencyStep \o u64_to_string(step_idx) \o CannotDependOnStep
                 \o u64_to_string(step.dependencies[Min(baddeps)]) \o MustBeEarlier)
        ELSE Ok(<<>>)

\* Mutant of duplicates: the children whose id comes again later in the list.
duplicates_with_later(cs) ==
    {i \in 1..Len(cs) : \E j \in (i + 1)..Len(cs) : cs[j].id = cs[i].id}

\* config.rs:120-126: the children whose id is already in the set of the ids
\* seen before them.
duplicates(cs) == {i \in 1..Len(cs) : \E j \in 1..(i - 1) : cs[j].id = cs[i].id}

\* Mutant of uncovered: no child is looked for in the steps.
uncovered_none(cfg) == {}

\* config.rs:146-158: the children whose id is in no step.
uncovered(cfg) ==
    LET steps == cfg.execution_pattern.steps
        covered_agents == UNION {{steps[k].agent_ids[i] : i \in 1..Len(steps[k].agent_ids)}
                                 : k \in 1..Len(steps)}
    IN  {i \in 1..Len(cfg.child_agents) : cfg.child_agents[i].id \notin covered_agents}

\* Mutant of validate: the check for an empty team is left out.
validate_without_empty_check(cfg) ==
    LET cs == cfg.child_agents
        steps == cfg.execution_pattern.steps
        badsteps == {k \in 0..(Len(steps) - 1) : validate_step(cfg, k).tag = "Err"}
    IN  IF duplicates(cs) # {} THEN Err(DuplicateAgentId \o cs[Min(duplicates(cs))].id)
        ELSE IF cfg.execution_pattern.tag = "Hybrid"
        THEN IF badsteps # {} THEN validate_step(cfg, Min(badsteps))
             ELSE IF uncovered(cfg) # {}
             THEN Err(AgentSp \o cs[Min(uncovered(cfg))].id \o NotIncludedInAnyStep)
             ELSE Ok(<<>>)
        ELSE Ok(<<>>)

\* TeamAgentConfig::validate
validate(cfg) ==
    LET cs == cfg.child_agents
        dups == duplicates(cs)
        steps == cfg.execution_pattern.steps
        badsteps == {k \in 0..(Len(steps) - 1) : validate_step(cfg, k).tag = "Err"}
    IN  IF Len(cs) = 0 THEN Err(<<"T", "e", "a", "m", " ", "a", "g", "e", "n", "t", " ", "m", "u", "s", "t", " ", "h", "a", "v", "e", " ", "a", "t", " ", "l", "e", "a", "s", "t", " ", "o", "n", "e", " ", "c", "h", "i", "l", "d", " ", "a", "g", "e", "n", "t">>)
        ELSE IF dups # {} THEN Err(DuplicateAgentId \o cs[Min(dups)].id)
        ELSE IF cfg.execution_pattern.tag = "Hybrid"
        THEN IF badsteps # {} THEN validate_step(cfg, Min(badsteps))
             ELSE IF uncovered(cfg) # {}
             THEN Err(AgentSp \o cs[Min(uncovered(cfg))].id \o NotIncludedInAnyStep)
             ELSE Ok(<<>>)
        ELSE Ok(<<>>)

\* Mutant of TeamExecutor_new: the executor is built without validation.
TeamExecutor_new_unchecked(cfg) == Ok([config |-> cfg])

\* TeamExecutor::new: the executor exists only for a configuration that validates.
TeamExecutor_new(cfg) ==
    LET v == validate(cfg)
    IN  IF v.tag = "Err" THEN Err(OtherError(v.error)) ELSE Ok([config |-> cfg])

----------------------------------------------------------------------------
\* The child agents.  An agent is an external collaborator with one decision
\* operation, plan(trace, inputs) -> Finish(output) | Action | Err.  The two
\* agents of the model are the ones of the specification's scenario: one
\* answers its source text in upper case, the other answers it reversed.  The
\* source text of an agent is the previous agent's output when it is given
\* one, and the task input otherwise.

LowerLetters == <<"a", "b", "c", "d", "e", "f", "g", "h", "i", "j", "k", "l", "m", "n", "o", "p", "q", "r", "s", "t", "u", "v", "w", "x", "y", "z">>
ToolFailed == <<"t", "o", "o", "l", " ", "f", "a", "i", "l", "e", "d">>

to_uppercase(s) ==
    [i \in 1..Len(s) |->
        IF \E k \in 1..Len(LowerLetters) : LowerLetters[k] = s[i]
        THEN <<"A", "B", "C", "D", "E", "F", "G", "H", "I", "J", "K", "L", "M", "N", "O", "P", "Q", "R", "S", "T", "U", "V", "W", "X", "Y", "Z">>[CHOOSE k \in 1..Len(LowerLetters) : LowerLetters[k] = s[i]]
        ELSE s[i]]

reverse(s) == [i \in 1..Len(s) |-> s[Len(s) + 1 - i]]

plan_source(inputs) ==
    IF "previous_agent_output" \in DOMAIN inputs
    THEN inputs["previous_agent_output"].s
    ELSE inputs["input"].s

\* The output of the Finish answer of an agent.
plan_output(agent, inputs) ==
    IF agent = "upper" THEN to_uppercase(plan_source(inputs))
    ELSE reverse(plan_source(inputs))

\* The AgentError a failing plan() returns, and the text it displays.
ChildError == [variant |-> "ToolError", msg |-> ToolFailed]
to_string(e) == e.msg

----------------------------------------------------------------------------
\* Results (execution.rs:16-42).

ChildAgentResult(agent_id, output, success, error, execution_time_ms) ==
    [agent_id |-> agent_id, output |-> output, success |-> success, error |-> error,
     execution_time_ms |-> execution_time_ms]

TeamExecutionResult(child_results, final_output, success, total_execution_time_ms) ==
    [child_results |-> child_results, final_output |-> final_output, success |-> success,
     total_execution_time_ms |-> total_execution_time_ms]

\* Mutant of format_result: a failed outcome is formatted like a successful one.
format_result_without_marker(r, success) == r.agent_id \o ColonSp \o r.output

\* The line of one child in the aggregated output (execution.rs:296-316).
format_result(r, success) ==
    IF success \/ r.success
    THEN r.agent_id \o ColonSp \o r.output
    ELSE r.agent_id \o <<":", " ", "E", "R", "R", "O", "R", " ", "-", " ">> \o (IF r.error.some THEN r.error.v ELSE <<"U", "n", "k", "n", "o", "w", "n", " ", "e", "r", "r", "o", "r">>)

\* Mutant of aggregate_results: success is true as soon as one outcome
\* succeeded.
aggregate_results_any(results) ==
    LET success == \E i \in 1..Len(results) : results[i].success
        outputs == [i \in 1..Len(results) |-> format_result(results[i], success)]
    IN  Ok(TeamExecutionResult(results, join(outputs, BlankLine), success, 0))

\* Mutant of aggregate_results: every entry is followed by the separator,
\* the last one included.
aggregate_results_trailing(results) ==
    LET success == \A i \in 1..Len(results) : results[i].success
        outputs == [i \in 1..Len(results) |->
                        format_result(results[i], success) \o BlankLine]
    IN  Ok(TeamExecutionResult(results, join(outputs, <<>>), success, 0))

\* TeamExecutor::aggregate_results
aggregate_results(results) ==
    LET success == \A i \in 1..Len(results) : results[i].success
        outputs == [i \in 1..Len(results) |-> format_result(results[i], success)]
    IN  Ok(TeamExecutionResult(results, join(outputs, BlankLine), success, 0))

----------------------------------------------------------------------------
\* One child invocation (execution.rs:230-284).
\*
\* A future of execute_child_agent is a record:
\*   child   the index of the child in config.child_agents
\*   inputs  the PromptArgs it was created with
\*   step    the Hybrid step it belongs to (0 in the other patterns)
\*   status  "created"   built, never polled: plan() has not been called
\*           "running"   polled, plan() pending
\*           "done"      resolved to Ok(result)
\*           "failed"    resolved to Err(error)
\*           "cancelled" dropped while running
\*           "dropped"   dropped before its first poll: the child was never invoked
\*   plan    what plan() returns when it is next polled (Pending: not ready)
\*   timer   the deadline of tokio::time::timeout: "unarmed" | "armed" | "fired"
\*   start_time  the Instant read by the first poll (execution.rs:236)
\*   result  the ChildAgentResult, once done

NewFuture(child, inputs, step) ==
    [child |-> child, inputs |-> inputs, step |-> step, status |-> "created",
     plan |-> Pending, timer |-> "unarmed", start_time |-> None, result |-> None]

Finish(output) == [tag |-> "Finish", output |-> output]
Action == [tag |-> "Action"]

\* execution.rs:240-246
on_finish(child, output, start_time) ==
    Ok(ChildAgentResult(child.id, output, TRUE, None, as_millis(elapsed(start_time))))

\* Mutant of on_action: the answer of a non-critical child is recorded as a
\* failed outcome.
on_action_recorded(child) ==
    IF child.critical
    THEN Err(OtherError(ActionInsteadOfFinish))
    ELSE Ok(ChildAgentResult(child.id, ErrorColon \o ActionInsteadOfFinish, FALSE,
                             Some(ActionInsteadOfFinish), 0))

\* execution.rs:247-253
on_action(child) == Err(OtherError(ActionInsteadOfFinish))

\* Mutant of on_error: the failure of a critical child is recorded as an
\* outcome, and the failure of a child that is not critical is propagated.
on_error_records_critical(child, e, start_time) ==
    IF ~child.critical
    THEN Err(e)
    ELSE Ok(ChildAgentResult(child.id, ErrorColon \o to_string(e), FALSE, Some(to_string(e)),
                             as_millis(elapsed(start_time))))

\* Mutant of on_error: the failed outcome is recorded without the message.
on_error_without_message(child, e, start_time) ==
    IF child.critical
    THEN Err(e)
    ELSE Ok(ChildAgentResult(child.id, ErrorColon \o to_string(e), FALSE, None,
                             as_millis(elapsed(start_time))))

\* Mutant of on_error: the failure is propagated whatever the critical flag.
on_error_always_propagates(child, e, start_time) == Err(e)

\* Mutant of on_error: the failure is recorded as an outcome whatever the
\* critical flag.
on_error_never_propagates(child, e, start_time) ==
    Ok(ChildAgentResult(child.id, ErrorColon \o to_string(e), FALSE, Some(to_string(e)),
                        as_millis(elapsed(start_time))))

\* execution.rs:254-267
on_error(child, e, start_time) ==
    IF child.critical
    THEN Err(e)
    ELSE Ok(ChildAgentResult(child.id, ErrorColon \o to_string(e), FALSE, Some(to_string(e)),
                             as_millis(elapsed(start_time))))

\* Mutant of on_elapsed: the expiry of a non-critical child is recorded as a
\* failed outcome.
on_elapsed_downgraded(child) ==
    IF child.critical
    THEN Err(OtherError(AgentSp \o child.id \o TimedOutAfter
                            \o u64_to_string(child.timeout.v) \o Seconds))
    ELSE Ok(ChildAgentResult(child.id, ErrorColon \o TimedOutAfter, FALSE, Some(TimedOutAfter), 0))

\* Mutant of on_elapsed: the error does not name the child.
on_elapsed_unnamed(child) ==
    Err(OtherError(AgentSp \o TimedOutAfter \o u64_to_string(child.timeout.v) \o Seconds))

\* execution.rs:275-280
on_elapsed(child) ==
    Err(OtherError(AgentSp \o child.id \o TimedOutAfter \o u64_to_string(child.timeout.v) \o Seconds))

\* execution.rs:236: start_time is read when the future is first polled.
start_time_of(f) == IF f.start_time.some THEN f.start_time.v ELSE clock

\* One poll of the future: tokio's Timeout polls the inner future first and
\* its deadline only when the inner future is pending.
execute_child_agent(child, f) ==
    IF f.plan.tag = "Finish" THEN on_finish(child, f.plan.output, start_time_of(f))
    ELSE IF f.plan.tag = "Action" THEN on_action(child)
    ELSE IF f.plan.tag = "Err" THEN on_error(child, f.plan.error, start_time_of(f))
    ELSE IF child.timeout.some /\ f.timer = "fired" THEN on_elapsed(child)
    ELSE Pending

\* The future after a poll that answered r.
polled(child, f, r) ==
    LET g == [f EXCEPT !.start_time = Some(start_time_of(f))]
    IN  IF r.tag = "Ok" THEN [g EXCEPT !.status = "done", !.result = Some(r.value)]
        ELSE IF r.tag = "Err" THEN [g EXCEPT !.status = "failed"]
        ELSE [g EXCEPT !.status = "running",
                       !.timer = IF child.timeout.some /\ @ = "unarmed" THEN "armed" ELSE @]

\* One poll of futures::future::try_join_all over the futures `batch` (indices
\* into fs, in launch order), from its k-th element on: the elements that are
\* not done are polled in launch order; the first Err ends the poll and is
\* the answer, and the elements after it are not polled.  A single awaited
\* future is a batch of one.
RECURSIVE try_join_all(_, _, _, _)
try_join_all(cfg, fs, batch, k) ==
    IF k > Len(batch) THEN [futures |-> fs, state |-> "AllDone"]
    ELSE LET i == batch[k]
             child == cfg.child_agents[fs[i].child]
         IN  IF fs[i].status = "done" THEN try_join_all(cfg, fs, batch, k + 1)
             ELSE LET r == execute_child_agent(child, fs[i])
                      fs1 == [fs EXCEPT ![i] = polled(child, fs[i], r)]
                  IN  IF r.tag = "Err"
                      THEN [futures |-> fs1, state |-> "Error", error |-> r.error]
                      ELSE LET rest == try_join_all(cfg, fs1, batch, k + 1)
                           IN  IF r.tag = "Pending" /\ rest.state = "AllDone"
                               THEN [rest EXCEPT !.state = "Pending"]
                               ELSE rest

\* Mutant of join_results: the results are collected in the order in which
\* the children answered.
join_results_in_completion_order(fs, batch) ==
    LET members == {batch[k] : k \in 1..Len(batch)}
        order == SelectSeq(completion, LAMBDA i : i \in members)
    IN  [k \in 1..Len(batch) |-> fs[order[k]].result.v]

\* The Vec try_join_all answers when every element is done: the results in
\* launch order.
join_results(fs, batch) == [k \in 1..Len(batch) |-> fs[batch[k]].result.v]

\* Mutant of drop_futures: the futures are left as they are, as detached
\* tasks would be.
drop_futures_detached(fs) == fs

\* Dropping the futures of a call: what was running is cancelled, what was
\* never polled is never invoked.
drop_futures(fs) ==
    [i \in 1..Len(fs) |->
        IF fs[i].status = "running" THEN [fs[i] EXCEPT !.status = "cancelled"]
        ELSE IF fs[i].status = "created" THEN [fs[i] EXCEPT !.status = "dropped"]
        ELSE fs[i]]

----------------------------------------------------------------------------
\* The pattern routines.  Each is the future of an async fn; the operator
\* named after the routine is one poll of that future.  The routine's local
\* variables are the record loc:
\*   routine        the routine that runs
\*   awaiting       the futures the routine awaits, in launch order
\*   global_timer   the deadline of the global timeout: "unarmed" | "armed" | "fired"
\*   results, current_input, pos   the sequential loop: its results, the input
\*                  of the next child, the position of the awaited child
\*   step_idx, all_results, step_outputs   the loop of execute_hybrid;
\*                  step_outputs[k + 1] is the entry of step k
\*   team_result    what execute() answered (the local of TeamAgent::plan)
\* A poll answers the machine state after it: futures, loc, ret and pc.

NotReturned == [tag |-> "None"]

Running(fs, l) == [futures |-> fs, loc |-> l, ret |-> NotReturned, pc |-> "running"]

\* The routine returns r: its futures are dropped with it.
Returned(fs, l, r) ==
    [futures |-> drop_futures(fs), loc |-> l, ret |-> r, pc |-> "returned"]

\* The futures of `children` (indices of config.child_agents), each created
\* with a clone of inputs, become the awaited batch.
launch(fs, l, children, inputs, step) ==
    Running(fs \o [k \in 1..Len(children) |-> NewFuture(children[k], inputs, step)],
            [l EXCEPT !.awaiting = [k \in 1..Len(children) |-> Len(fs) + k]])

\* Mutant of start_concurrent: each child after the first is told the id of
\* the child launched before it.
start_concurrent_chained(cfg, l, inputs) ==
    Running([k \in 1..Len(cfg.child_agents) |->
                NewFuture(k,
                          IF k = 1 THEN inputs
                          ELSE insert(inputs, "previous_agent_id",
                                      JsonString(cfg.child_agents[k - 1].id)),
                          0)],
            [l EXCEPT !.routine = "Concurrent",
                      !.global_timer = IF cfg.global_timeout.some THEN "armed" ELSE "unarmed",
                      !.awaiting = [k \in 1..Len(cfg.child_agents) |-> k]])

\* execution.rs:93-98: the futures of all children, and the global timeout.
start_concurrent(cfg, l, inputs) ==
    launch(<<>>,
           [l EXCEPT !.routine = "Concurrent",
                     !.global_timer = IF cfg.global_timeout.some THEN "armed" ELSE "unarmed"],
           [i \in 1..Len(cfg.child_agents) |-> i], inputs, 0)

\* Mutant of execute_concurrent: at the global deadline the outcomes that
\* are ready are aggregated and returned.
execute_concurrent_partial(cfg, fs, l) ==
    LET j == try_join_all(cfg, fs, l.awaiting, 1)
        ready == SelectSeq(l.awaiting, LAMBDA i : j.futures[i].status = "done")
    IN  IF j.state = "Error" THEN Returned(j.futures, l, Err(j.error))
        ELSE IF j.state = "Pending"
        THEN IF cfg.global_timeout.some /\ l.global_timer = "fired"
             THEN Returned(j.futures, l, aggregate_results(join_results(j.futures, ready)))
             ELSE Running(j.futures, l)
        ELSE Returned(j.futures, l, aggregate_results(join_results(j.futures, l.awaiting)))

\* TeamExecutor::execute_concurrent (execution.rs:100-109)
execute_concurrent(cfg, fs, l) ==
    LET j == try_join_all(cfg, fs, l.awaiting, 1)
    IN  IF j.state = "Error" THEN Returned(j.futures, l, Err(j.error))
        ELSE IF j.state = "Pending"
        THEN IF cfg.global_timeout.some /\ l.global_timer = "fired"
             THEN Returned(j.futures, l, Err(OtherError(GlobalTimeoutExceeded)))
             ELSE Running(j.futures, l)
        ELSE Returned(j.futures, l, aggregate_results(join_results(j.futures, l.awaiting)))

\* Mutant of next_input: the two keys are set once and kept, so a later child
\* sees the output of an earlier child than its predecessor.
next_input_keeps_first(current_input, result) ==
    IF "previous_agent_output" \in DOMAIN current_input
    THEN current_input
    ELSE insert(insert(current_input, "previous_agent_output", JsonString(result.output)),
                "previous_agent_id", JsonString(result.agent_id))

\* execution.rs:126-131
next_input(current_input, result) ==
    insert(insert(current_input, "previous_agent_output", JsonString(result.output)),
           "previous_agent_id", JsonString(result.agent_id))

\* Mutant of break_on_result: the loop goes on after a failed outcome.
break_on_result_ignored(cfg, result) == FALSE

\* Mutant of break_on_result: the loop stops at a failed outcome whatever
\* break_on_error says.
break_on_result_always(cfg, result) == ~result.success

\* execution.rs:136
break_on_result(cfg, result) == cfg.break_on_error /\ ~result.success

\* execution.rs:118-124: the first iteration of the loop.
start_sequential(cfg, l, inputs) ==
    launch(<<>>, [l EXCEPT !.routine = "Sequential", !.current_input = inputs, !.pos = 1],
           <<1>>, inputs, 0)

\* TeamExecutor::execute_sequential (execution.rs:121-141)
execute_sequential(cfg, fs, l) ==
    LET j == try_join_all(cfg, fs, l.awaiting, 1)
    IN  IF j.state = "Error" THEN Returned(j.futures, l, Err(j.error))
        ELSE IF j.state = "Pending" THEN Running(j.futures, l)
        ELSE LET result == j.futures[l.awaiting[1]].result.v
                 l1 == [l EXCEPT !.current_input = next_input(@, result),
                                 !.results = Append(@, result)]
             IN  IF break_on_result(cfg, result) \/ l.pos >= Len(cfg.child_agents)
                 THEN Returned(j.futures, l1, aggregate_results(l1.results))
                 ELSE launch(j.futures, [l1 EXCEPT !.pos = l.pos + 1],
                             <<l.pos + 1>>, l1.current_input, 0)

\* format!("step_{}_outputs", dep_idx)
step_key(dep_idx) == "step_" \o ToString(dep_idx) \o "_outputs"

\* execution.rs:161-164
dep_outputs(dep_results) ==
    [i \in 1..Len(dep_results) |->
        [agent_id |-> dep_results[i].agent_id, output |-> dep_results[i].output]]

\* Mutant of add_dependencies: a dependency whose step recorded no outcome is
\* passed over.
RECURSIVE add_dependencies_nonempty(_, _, _)
add_dependencies_nonempty(step_input, dependencies, step_outputs) ==
    IF Len(dependencies) = 0 THEN step_input
    ELSE LET dep_idx == dependencies[1]
         IN  add_dependencies_nonempty(
                 IF dep_idx + 1 <= Len(step_outputs) /\ Len(step_outputs[dep_idx + 1]) > 0
                 THEN insert(step_input, step_key(dep_idx),
                             JsonArray(dep_outputs(step_outputs[dep_idx + 1])))
                 ELSE step_input,
                 Tail(dependencies), step_outputs)

\* execution.rs:159-170: the outputs of the dependencies, in their order.
RECURSIVE add_dependencies(_, _, _)
add_dependencies(step_input, dependencies, step_outputs) ==
    IF Len(dependencies) = 0 THEN step_input
    ELSE LET dep_idx == dependencies[1]
         IN  add_dependencies(
                 IF dep_idx + 1 <= Len(step_outputs)
                 THEN insert(step_input, step_key(dep_idx),
                             JsonArray(dep_outputs(step_outputs[dep_idx + 1])))
                 ELSE step_input,
                 Tail(dependencies), step_outputs)

\* Mutant of step_input_of: the outputs of every earlier step are added,
\* declared as a dependency or not.
step_input_of_all_steps(inputs, step, step_outputs) ==
    add_dependencies(inputs, [d \in 1..Len(step_outputs) |-> d - 1], step_outputs)

\* execution.rs:156-170
step_input_of(inputs, step, step_outputs) ==
    add_dependencies(inputs, step.dependencies, step_outputs)

\* Mutant of step_agents: a child listed twice in a step is taken once.
RECURSIVE step_agents_distinct(_, _)
step_agents_distinct(cfg, agent_ids) ==
    IF Len(agent_ids) = 0 THEN <<>>
    ELSE LET front == SubSeq(agent_ids, 1, Len(agent_ids) - 1)
             last == agent_ids[Len(agent_ids)]
             found == {i \in 1..Len(cfg.child_agents) : cfg.child_agents[i].id = last}
         IN  step_agents_distinct(cfg, front)
             \o (IF found = {} \/ \E k \in 1..Len(front) : front[k] = last
                 THEN <<>> ELSE <<Min(found)>>)

\* Mutant of step_agents: no child is found for the ids of a step.
step_agents_finds_none(cfg, agent_ids) == <<>>

\* execution.rs:173-177: the children of the ids of the step, in the order of
\* the ids; an id that names no child is skipped.
RECURSIVE step_agents(_, _)
step_agents(cfg, agent_ids) ==
    IF Len(agent_ids) = 0 THEN <<>>
    ELSE LET found == {i \in 1..Len(cfg.child_agents) : cfg.child_agents[i].id = agent_ids[1]}
         IN  (IF found = {} THEN <<>> ELSE <<Min(found)>>)
             \o step_agents(cfg, Tail(agent_ids))

\* Mutant of begin_step: the step starts from the inputs the step before it
\* ended with.
begin_step_carries_context(cfg, fs, l, inputs, step_idx) ==
    LET step == cfg.execution_pattern.steps[step_idx + 1]
        carried == IF step_idx = 0 THEN inputs ELSE l.current_input
        step_input == step_input_of(carried, step, l.step_outputs)
        agents == step_agents(cfg, step.agent_ids)
        l1 == [l EXCEPT !.routine = "Hybrid", !.step_idx = step_idx, !.results = <<>>,
                        !.current_input = step_input]
    IN  IF step.concurrent
        THEN launch(fs, [l1 EXCEPT !.pos = 0], agents, step_input, step_idx)
        ELSE IF Len(agents) = 0
        THEN Running(fs, [l1 EXCEPT !.pos = 0, !.awaiting = <<>>])
        ELSE launch(fs, [l1 EXCEPT !.pos = 1], <<agents[1]>>, step_input, step_idx)

\* Mutant of begin_step: the step is given the deadline of the global
\* timeout.
begin_step_with_deadline(cfg, fs, l, inputs, step_idx) ==
    LET step == cfg.execution_pattern.steps[step_idx + 1]
        step_input == step_input_of(inputs, step, l.step_outputs)
        agents == step_agents(cfg, step.agent_ids)
        l1 == [l EXCEPT !.routine = "Hybrid", !.step_idx = step_idx, !.results = <<>>,
                        !.current_input = step_input,
                        !.global_timer = IF cfg.global_timeout.some THEN "armed" ELSE "unarmed"]
    IN  IF step.concurrent
        THEN launch(fs, [l1 EXCEPT !.pos = 0], agents, step_input, step_idx)
        ELSE IF Len(agents) = 0
        THEN Running(fs, [l1 EXCEPT !.pos = 0, !.awaiting = <<>>])
        ELSE launch(fs, [l1 EXCEPT !.pos = 1], <<agents[1]>>, step_input, step_idx)

\* execution.rs:154-198: the head of one iteration of the loop over the steps.
begin_step(cfg, fs, l, inputs, step_idx) ==
    LET step == cfg.execution_pattern.steps[step_idx + 1]
        step_input == step_input_of(inputs, step, l.step_outputs)
        agents == step_agents(cfg, step.agent_ids)
        l1 == [l EXCEPT !.routine = "Hybrid", !.step_idx = step_idx, !.results = <<>>,
                        !.current_input = step_input]
    IN  IF step.concurrent
        THEN launch(fs, [l1 EXCEPT !.pos = 0], agents, step_input, step_idx)
        ELSE IF Len(agents) = 0
        THEN Running(fs, [l1 EXCEPT !.pos = 0, !.awaiting = <<>>])
        ELSE launch(fs, [l1 EXCEPT !.pos = 1], <<agents[1]>>, step_input, step_idx)

\* Mutant of break_on_results: the loop over the steps never stops early.
break_on_results_never(cfg, all_results) == FALSE

\* execution.rs:221
break_on_results(cfg, all_results) ==
    cfg.break_on_error /\ \E i \in 1..Len(all_results) : ~all_results[i].success

\* Mutant of end_step: the outcomes of the step go to the results of the
\* call, and the entry of the step is left empty.
end_step_forgets(cfg, fs, l, inputs, step_results) ==
    LET l1 == [l EXCEPT !.step_outputs = Append(@, <<>>),
                        !.all_results = @ \o step_results]
    IN  IF break_on_results(cfg, l1.all_results)
           \/ l.step_idx + 1 >= Len(cfg.execution_pattern.steps)
        THEN Returned(fs, l1, aggregate_results(l1.all_results))
        ELSE begin_step(cfg, fs, l1, inputs, l.step_idx + 1)

\* execution.rs:216-226: the tail of one iteration of the loop over the steps.
end_step(cfg, fs, l, inputs, step_results) ==
    LET l1 == [l EXCEPT !.step_outputs = Append(@, step_results),
                        !.all_results = @ \o step_results]
    IN  IF break_on_results(cfg, l1.all_results)
           \/ l.step_idx + 1 >= Len(cfg.execution_pattern.steps)
        THEN Returned(fs, l1, aggregate_results(l1.all_results))
        ELSE begin_step(cfg, fs, l1, inputs, l.step_idx + 1)

\* Mutant of execute_hybrid: the agents of a non-concurrent step all receive
\* the input of the step.
execute_hybrid_unchained(cfg, fs, l, inputs) ==
    LET j == try_join_all(cfg, fs, l.awaiting, 1)
        step == cfg.execution_pattern.steps[l.step_idx + 1]
        agents == step_agents(cfg, step.agent_ids)
    IN  IF j.state = "Error" THEN Returned(j.futures, l, Err(j.error))
        ELSE IF j.state = "Pending" THEN Running(j.futures, l)
        ELSE IF step.concurrent
        THEN end_step(cfg, j.futures, l, inputs, join_results(j.futures, l.awaiting))
        ELSE IF Len(l.awaiting) = 0
        THEN end_step(cfg, j.futures, l, inputs, l.results)
        ELSE LET result == j.futures[l.awaiting[1]].result.v
                 l1 == [l EXCEPT !.results = Append(@, result)]
             IN  IF break_on_result(cfg, result) \/ l.pos >= Len(agents)
                 THEN end_step(cfg, j.futures, l1, inputs, l1.results)
                 ELSE launch(j.futures, [l1 EXCEPT !.pos = l.pos + 1],
                             <<agents[l.pos + 1]>>, l1.current_input, l.step_idx)

\* TeamExecutor::execute_hybrid (execution.rs:154-226)
execute_hybrid(cfg, fs, l, inputs) ==
    LET j == try_join_all(cfg, fs, l.awaiting, 1)
        step == cfg.execution_pattern.steps[l.step_idx + 1]
        agents == step_agents(cfg, step.agent_ids)
    IN  IF j.state = "Error" THEN Returned(j.futures, l, Err(j.error))
        ELSE IF j.state = "Pending" THEN Running(j.futures, l)
        ELSE IF step.concurrent
        THEN end_step(cfg, j.futures, l, inputs, join_results(j.futures, l.awaiting))
        ELSE IF Len(l.awaiting) = 0
        THEN end_step(cfg, j.futures, l, inputs, l.results)
        ELSE LET result == j.futures[l.awaiting[1]].result.v
                 l1 == [l EXCEPT !.current_input = next_input(@, result),
                                 !.results = Append(@, result)]
             IN  IF break_on_result(cfg, result) \/ l.pos >= Len(agents)
                 THEN end_step(cfg, j.futures, l1, inputs, l1.results)
                 ELSE launch(j.futures, [l1 EXCEPT !.pos = l.pos + 1],
                             <<agents[l.pos + 1]>>, l1.current_input, l.step_idx)

----------------------------------------------------------------------------
\* The teams and the inputs of the model.

\* The per-child timeout of the children that have one, in seconds.
ChildTimeoutSecs == 30

ChildId(i) == <<<<"a", "b", "c", "d", "e">>[i]>>
AgentOf(i) == IF i % 2 = 1 THEN "upper" ELSE "reverse"

Profiles == [critical : BOOLEAN, timeout : {None, Some(ChildTimeoutSecs)}]

\* TeamAgentBuilder::add_agent_with_config for each child of the team.
team_of(profiles) ==
    [i \in 1..Len(profiles) |->
        [ChildAgentConfig_new(ChildId(i), AgentOf(i))
            EXCEPT !.critical = profiles[i].critical, !.timeout = profiles[i].timeout]]

ids_of(children) == [i \in 1..Len(children) |-> children[i].id]

\* The steps of TeamAgentBuilder::fan_out (builder.rs:226-257)
fan_out_steps(ids) ==
    <<ExecutionStep(<<ids[1]>>, FALSE, <<>>), ExecutionStep(Tail(ids), TRUE, <<0>>)>>

\* The steps of TeamAgentBuilder::fan_in (builder.rs:260-293)
fan_in_steps(ids) ==
    <<ExecutionStep(SubSeq(ids, 1, Len(ids) - 1), TRUE, <<>>),
      ExecutionStep(<<ids[Len(ids)]>>, FALSE, <<0>>)>>

\* The steps of TeamAgentBuilder::pipeline_with_concurrent (builder.rs:196-215)
pipeline_steps(ids) ==
    <<ExecutionStep(<<ids[1]>>, FALSE, <<>>),
      ExecutionStep(<<ids[2], ids[3]>>, TRUE, <<0>>),
      ExecutionStep(<<ids[4]>>, FALSE, <<1>>)>>

\* Steps written by hand (TeamAgentBuilder::hybrid): all children one after
\* the other, then the first child again in a step that declares no dependency.
chain_steps(ids) ==
    <<ExecutionStep(ids, FALSE, <<>>), ExecutionStep(<<ids[1]>>, FALSE, <<>>)>>

\* Steps that leave out every child but the first: validate rejects them for
\* a team of two or more.
partial_steps(ids) == <<ExecutionStep(<<ids[1]>>, FALSE, <<>>)>>

Patterns(children) ==
    {Concurrent, Sequential}
    \cup {Hybrid(s) : s \in {fan_out_steps(ids_of(children)), fan_in_steps(ids_of(children)),
                             chain_steps(ids_of(children)), partial_steps(ids_of(children))}}

team_config(children, pattern, break_on_error, global_timeout) ==
    [TeamAgentConfig_default EXCEPT !.child_agents = children,
                                    !.execution_pattern = pattern,
                                    !.break_on_error = break_on_error,
                                    !.global_timeout = global_timeout]

\* The teams of up to MaxChildren children, of every profile and pattern.
GeneratedConfigs ==
    UNION {UNION {{team_config(team_of(profiles), pattern, boe, gt)
                      : pattern \in Patterns(team_of(profiles)), boe \in BOOLEAN,
                        gt \in {None, Some(DefaultGlobalTimeout)}}
                  : profiles \in [1..n -> Profiles]}
           : n \in 1..MaxChildren}

\* The Sequential pattern runs one child at a time: its teams go one child
\* further, without timeouts (TeamAgentBuilder::sequential_team, then
\* with_critical and break_on_error as the caller sets them).
SequentialTeams ==
    {team_config(team_of(profiles), Sequential, boe, Some(DefaultGlobalTimeout))
        : profiles \in [1..(MaxChildren + 1) -> [critical : BOOLEAN, timeout : {None}]],
          boe \in BOOLEAN}

\* TeamAgentBuilder::pipeline_with_concurrent: four children added with
\* add_agent (critical, no timeout), then break_on_error as the caller sets it.
pipeline_with_concurrent(break_on_error) ==
    LET children == [i \in 1..4 |-> ChildAgentConfig_new(ChildId(i), AgentOf(i))]
    IN  team_config(children, Hybrid(pipeline_steps(ids_of(children))), break_on_error,
                    Some(DefaultGlobalTimeout))

\* Steps written by hand (TeamAgentBuilder::hybrid) that validate() accepts:
\* a step without agents, the first child twice in one step, the first child
\* again in a later step, a dependency declared twice, and a last step
\* without agents that depends on the step before it.
repeating_steps(ids) ==
    <<ExecutionStep(<<>>, TRUE, <<>>),
      ExecutionStep(<<ids[1], ids[1]>>, FALSE, <<0>>),
      ExecutionStep(<<ids[2], ids[1]>>, TRUE, <<1, 1>>),
      ExecutionStep(<<>>, FALSE, <<2>>)>>

\* Two children without timeouts, critical or not, under these steps.
RepeatingTeams ==
    {team_config(team_of(profiles), Hybrid(repeating_steps(ids_of(team_of(profiles)))),
                 boe, Some(DefaultGlobalTimeout))
        : profiles \in [1..2 -> [critical : BOOLEAN, timeout : {None}]],
          boe \in BOOLEAN}

\* A field that the routine of the pattern never reads keeps the value of
\* TeamAgentConfig::default: global_timeout is read by execute_concurrent
\* only, break_on_error by the other two routines only.
Candidates ==
    {c \in GeneratedConfigs :
        IF c.execution_pattern.tag = "Concurrent"
        THEN c.break_on_error = TeamAgentConfig_default.break_on_error
        ELSE c.global_timeout = TeamAgentConfig_default.global_timeout}
    \cup SequentialTeams
    \cup {pipeline_with_concurrent(boe) : boe \in BOOLEAN}
    \cup RepeatingTeams

\* The configurations an executor can hold: TeamExecutor::new answered Ok.
Executors == {c \in Candidates : TeamExecutor_new(c).tag = "Ok"}

Hi == <<"h", "i">>

\* The inputs of a call by an application: the task.
PlainInputs == [input |-> JsonString(Hi)]

\* The inputs of a call by an outer team that runs this team as the second
\* agent of a non-concurrent Hybrid step with a dependency on its step 0.
NestedInputs ==
    [input |-> JsonString(Hi),
     step_0_outputs |-> JsonArray(<<[agent_id |-> <<"x">>, output |-> <<"o", "k">>]>>),
     previous_agent_output |-> JsonString(<<"y", "o">>),
     previous_agent_id |-> JsonString(<<"y">>)]

Inputs == {PlainInputs, NestedInputs}

----------------------------------------------------------------------------
\* The shared conversation memory: a tokio::sync::Mutex around a BaseMemory
\* (builder.rs:115).  The variable memory is the data behind the handle,
\*   messages  the messages BaseMemory::messages answers
\*   guard     who holds the MutexGuard: nobody, the team agent, or the plan()
\*             of the child of a future

Message(content) == [content |-> content]

NoHolder == [holder |-> "none", future |-> 0]
EngineHolds == [holder |-> "engine", future |-> 0]
ChildHolds(i) == [holder |-> "child", future |-> i]

ChildMessage == Message(<<"n", "e", "w">>)

\* The largest number of messages in the memory.
MaxMessages == 2

MemoryInit == [messages |-> <<Message(<<"o", "l", "d">>)>>, guard |-> NoHolder]

\* BaseMemory::messages(&self)
messages(mem) == mem.messages

\* A MutexGuard lives in the future that acquired it: when the future ends
\* or is dropped, the lock is free again.
release_guards(mem, fs) ==
    IF mem.guard.holder = "child" /\ fs[mem.guard.future].status # "running"
    THEN [mem EXCEPT !.guard = NoHolder]
    ELSE mem

----------------------------------------------------------------------------
\* The team agent (agent.rs): the executor behind the Agent interface.

NewLine == <<"\n">>

\* The Debug formats format!("{:?}", ..) writes.
debug_str(s) == <<"\"">> \o s \o <<"\"">>
debug_bool(b) == IF b THEN <<"t", "r", "u", "e">> ELSE <<"f", "a", "l", "s", "e">>
debug_vec(items) == <<"[">> \o join(items, <<",", " ">>) \o <<"]">>

debug_step(step) ==
    <<"E", "x", "e", "c", "u", "t", "i", "o", "n", "S", "t", "e", "p", " ", "{", " ", "a", "g", "e", "n", "t", "_", "i", "d", "s", ":", " ">>
        \o debug_vec([i \in 1..Len(step.agent_ids) |-> debug_str(step.agent_ids[i])])
        \o <<",", " ", "c", "o", "n", "c", "u", "r", "r", "e", "n", "t", ":", " ">> \o debug_bool(step.concurrent)
        \o <<",", " ", "d", "e", "p", "e", "n", "d", "e", "n", "c", "i", "e", "s", ":", " ">>
        \o debug_vec([i \in 1..Len(step.dependencies) |-> u64_to_string(step.dependencies[i])])
        \o <<" ", "}">>

debug_pattern(pattern) ==
    IF pattern.tag = "Concurrent" THEN <<"C", "o", "n", "c", "u", "r", "r", "e", "n", "t">>
    ELSE IF pattern.tag = "Sequential" THEN <<"S", "e", "q", "u", "e", "n", "t", "i", "a", "l">>
    ELSE <<"H", "y", "b", "r", "i", "d", "(">>
            \o debug_vec([k \in 1..Len(pattern.steps) |-> debug_step(pattern.steps[k])])
            \o <<")">>

\* TeamAgent::child_agent_ids
child_agent_ids(cfg) == [i \in 1..Len(cfg.child_agents) |-> cfg.child_agents[i].id]

\* agent.rs:76-92: the metadata of the team, added to the inputs.
team_metadata(cfg, inputs) ==
    LET ids == child_agent_ids(cfg)
        a == insert(inputs, "team_agent_id", JsonString(<<"t", "e", "a", "m">>))
        b == insert(a, "child_agent_ids", JsonArray([i \in 1..Len(ids) |-> JsonString(ids[i])]))
        c == insert(b, "execution_pattern", JsonString(debug_pattern(cfg.execution_pattern)))
    IN  IF cfg.prefix.some THEN insert(c, "team_prefix", JsonString(cfg.prefix.v)) ELSE c

\* agent.rs:101-105
coordination_context(cfg) ==
    <<"T", "e", "a", "m", " ", "c", "o", "o", "r", "d", "i", "n", "a", "t", "i", "o", "n", " ", "c", "o", "n", "t", "e", "x", "t", ":", " ">> \o u64_to_string(Len(cfg.child_agents)) \o <<" ", "c", "h", "i", "l", "d", " ", "a", "g", "e", "n", "t", "s", " ", "e", "x", "e", "c", "u", "t", "i", "n", "g", " ", "i", "n", " ">>
        \o debug_pattern(cfg.execution_pattern) \o <<" ", "p", "a", "t", "t", "e", "r", "n">>

\* Mutant of memory_context: the guard is kept after the block, for as long
\* as the call runs.
memory_context_keeps_guard(cfg, team_inputs, mem) ==
    IF ~cfg.memory.some THEN [inputs |-> team_inputs, memory |-> mem]
    ELSE LET memory_guard == [mem EXCEPT !.guard = EngineHolds]
             a == insert(team_inputs, "chat_history", JsonArray(messages(memory_guard)))
             b == IF cfg.use_coordination_prompts
                  THEN insert(a, "coordination_context", JsonString(coordination_context(cfg)))
                  ELSE a
         IN  [inputs |-> b, memory |-> memory_guard]

\* agent.rs:95-108: the chat history and the coordination context, read
\* under the guard of the memory.  memory_guard is a local of the block: it
\* is dropped where the block ends, before the executor is called.
memory_context(cfg, team_inputs, mem) ==
    IF ~cfg.memory.some THEN [inputs |-> team_inputs, memory |-> mem]
    ELSE LET memory_guard == [mem EXCEPT !.guard = EngineHolds]
             chat_history == messages(memory_guard)
             a == insert(team_inputs, "chat_history", JsonArray(chat_history))
             b == IF cfg.use_coordination_prompts
                  THEN insert(a, "coordination_context", JsonString(coordination_context(cfg)))
                  ELSE a
         IN  [inputs |-> b, memory |-> [memory_guard EXCEPT !.guard = NoHolder]]

\* agent.rs:130-149: the lines of one child in the report.
format_child(idx, r) ==
    u64_to_string(idx) \o <<".", " ", "A", "g", "e", "n", "t", " ", "'">> \o r.agent_id \o <<"'", " ", "(">>
        \o u64_to_string(r.execution_time_ms) \o <<"m", "s", ")", ":", " ">>
        \o (IF r.success THEN <<"S", "U", "C", "C", "E", "S", "S">> ELSE <<"F", "A", "I", "L", "E", "D">>) \o NewLine
        \o (IF r.success THEN <<" ", " ", " ", "O", "u", "t", "p", "u", "t", ":", " ">> \o r.output \o NewLine
            ELSE IF r.error.some THEN <<" ", " ", " ", "E", "r", "r", "o", "r", ":", " ">> \o r.error.v \o NewLine
            ELSE <<>>)
        \o NewLine

\* TeamAgent::format_team_output
format_team_output(result) ==
    LET rs == result.child_results
        successful == Cardinality({i \in 1..Len(rs) : rs[i].success})
    IN  <<"T", "e", "a", "m", " ", "E", "x", "e", "c", "u", "t", "i", "o", "n", " ", "S", "u", "m", "m", "a", "r", "y", ":", "\n", "-", " ", "T", "o", "t", "a", "l", " ", "a", "g", "e", "n", "t", "s", ":", " ">> \o u64_to_string(Len(rs))
            \o <<"\n", "-", " ", "S", "u", "c", "c", "e", "s", "s", "f", "u", "l", ":", " ">> \o u64_to_string(successful)
            \o <<"\n", "-", " ", "E", "x", "e", "c", "u", "t", "i", "o", "n", " ", "t", "i", "m", "e", ":", " ">> \o u64_to_string(result.total_execution_time_ms) \o <<"m", "s", "\n", "\n">>
            \o <<"I", "n", "d", "i", "v", "i", "d", "u", "a", "l", " ", "A", "g", "e", "n", "t", " ", "R", "e", "s", "u", "l", "t", "s", ":", "\n">>
            \o join([i \in 1..Len(rs) |-> format_child(i, rs[i])], <<>>)
            \o <<"F", "i", "n", "a", "l", " ", "A", "g", "g", "r", "e", "g", "a", "t", "e", "d", " ", "O", "u", "t", "p", "u", "t", ":", "\n">> \o result.final_output

\* Mutant of TeamAgent_plan: the next-action answer of a child is relayed as
\* the answer of the team.
TeamAgent_plan_relays_action(team_result) ==
    IF team_result.tag = "Err"
    THEN IF team_result.error = OtherError(ActionInsteadOfFinish) THEN Ok(Action)
         ELSE team_result
    ELSE Ok(Finish(format_team_output(team_result.value)))

\* Mutant of TeamAgent_plan: the error of the executor is reported as text in
\* a final answer.
TeamAgent_plan_absorbs(team_result) ==
    IF team_result.tag = "Err" THEN Ok(Finish(to_string(team_result.error)))
    ELSE Ok(Finish(format_team_output(team_result.value)))

\* TeamAgent::plan, once execute_team has answered (agent.rs:167-175).
TeamAgent_plan(team_result) ==
    IF team_result.tag = "Err" THEN team_result
    ELSE Ok(Finish(format_team_output(team_result.value)))

\* execution.rs:76-84: the time of the whole call is written into the result.
execute_returns(result, start_time) ==
    LET total_time == as_millis(elapsed(start_time))
    IN  IF result.tag = "Ok"
        THEN Ok([result.value EXCEPT !.total_execution_time_ms = total_time])
        ELSE result

----------------------------------------------------------------------------
\* The state machine.

NoArgs == [x \in {} |-> None]

LocIdle ==
    [routine |-> "none", awaiting |-> <<>>, global_timer |-> "unarmed",
     results |-> <<>>, current_input |-> NoArgs, pos |-> 0,
     step_idx |-> 0, all_results |-> <<>>, step_outputs |-> <<>>,
     team_result |-> NotReturned]

\* The arguments of a call: the inputs execute() receives, whether the call
\* came through TeamAgent::plan, and the Instant read at execution.rs:62.
Call(inputs, facade, start_time) ==
    [inputs |-> inputs, facade |-> facade, start_time |-> start_time]

NoCall == Call(NoArgs, FALSE, 0)

\* The state around a HumanAgent or a TeamHumanAgent:
\*   agent   the agent that was constructed, if one was
\*   calls   the plan() calls made so far
\*   asked   the request_input calls made so far, with the interface that
\*           received each and whether the input was accepted
\*   phase   "idle", or "team" while execute_hybrid awaits the team executor
\*   locals  current_inputs, final_output and input_text of execute_hybrid
\*   ret     what the last plan() returned
HumanState(agent) ==
    [agent |-> agent, calls |-> 0, asked |-> <<>>, phase |-> "idle",
     locals |-> NoArgs, ret |-> NotReturned]

\* No human agent takes part in the run.
NoHuman == HumanState(None)

Init ==
    /\ config \in Executors
    /\ pc = "idle"
    /\ call = NoCall
    /\ futures = <<>>
    /\ loc = LocIdle
    /\ ret = NotReturned
    /\ completion = <<>>
    /\ clock = 0
    /\ memory = MemoryInit
    /\ human = NoHuman

\* Mutant of start: the routine starts from the locals the previous call
\* left behind.
start_keeping_locals(cfg, inputs) ==
    IF cfg.execution_pattern.tag = "Concurrent" THEN start_concurrent(cfg, LocIdle, inputs)
    ELSE IF cfg.execution_pattern.tag = "Sequential"
    THEN start_sequential(cfg, [LocIdle EXCEPT !.results = loc.results], inputs)
    ELSE begin_step(cfg, <<>>, [LocIdle EXCEPT !.all_results = loc.all_results], inputs, 0)

\* execution.rs:64-74: the routine of the pattern is entered.
start(cfg, inputs) ==
    IF cfg.execution_pattern.tag = "Concurrent" THEN start_concurrent(cfg, LocIdle, inputs)
    ELSE IF cfg.execution_pattern.tag = "Sequential" THEN start_sequential(cfg, LocIdle, inputs)
    ELSE begin_step(cfg, <<>>, LocIdle, inputs, 0)

\* One poll of the routine of the pattern.
poll(cfg, fs, l, inputs) ==
    IF l.routine = "Concurrent" THEN execute_concurrent(cfg, fs, l)
    ELSE IF l.routine = "Sequential" THEN execute_sequential(cfg, fs, l)
    ELSE execute_hybrid(cfg, fs, l, inputs)

\* TeamExecutor::execute is called (execution.rs:57-74).  The executor keeps
\* nothing of an earlier call.
Execute(inputs) ==
    /\ pc \in {"idle", "returned"}
    /\ LET m == start(config, inputs)
       IN  /\ futures' = m.futures
           /\ loc' = m.loc
           /\ ret' = m.ret
           /\ pc' = m.pc
    /\ call' = Call(inputs, FALSE, clock)
    /\ completion' = <<>>
    /\ UNCHANGED <<config, clock, memory, human>>

\* TeamAgent::plan is called (agent.rs:161-167): execute_team adds the
\* context of the team to the inputs and calls the executor.
\* memory.lock().await goes on when the lock is free.
Plan(inputs) ==
    /\ pc \in {"idle", "returned"}
    /\ config.memory.some => memory.guard = NoHolder
    /\ LET ctx == memory_context(config, team_metadata(config, inputs), memory)
           m == start(config, ctx.inputs)
       IN  /\ futures' = m.futures
           /\ loc' = m.loc
           /\ ret' = m.ret
           /\ pc' = m.pc
           /\ call' = Call(ctx.inputs, TRUE, clock)
           /\ memory' = ctx.memory
    /\ completion' = <<>>
    /\ UNCHANGED <<config, clock, human>>

Awaited(i) == \E k \in 1..Len(loc.awaiting) : loc.awaiting[k] = i

CanResolve(i) ==
    /\ pc = "running"
    /\ i \in 1..Len(futures)
    /\ Awaited(i)
    /\ futures[i].status \in {"created", "running"}
    /\ futures[i].plan = Pending

Resolve(i, answer) ==
    /\ CanResolve(i)
    /\ futures' = [futures EXCEPT ![i].plan = answer]
    /\ completion' = Append(completion, i)
    /\ UNCHANGED <<config, pc, call, loc, ret, clock, memory, human>>

\* The plan() of a child is able to return Ok(AgentEvent::Finish(..)).
PlanFinish(i) ==
    Resolve(i, Finish(plan_output(config.child_agents[futures[i].child].agent,
                                  futures[i].inputs)))

\* The plan() of a child is able to return Ok(AgentEvent::Action(..)).
PlanAction(i) == Resolve(i, Action)

\* The plan() of a child is able to return Err(e).
PlanError(i) == Resolve(i, Err(ChildError))

\* The deadline of the timeout of a running child passes.
TimerFires(i) ==
    /\ pc = "running"
    /\ i \in 1..Len(futures)
    /\ futures[i].status = "running"
    /\ futures[i].timer = "armed"
    /\ futures[i].plan = Pending
    /\ futures' = [futures EXCEPT ![i].timer = "fired"]
    /\ UNCHANGED <<config, pc, call, loc, ret, completion, clock, memory, human>>

\* The deadline of the global timeout passes.
GlobalTimerFires ==
    /\ pc = "running"
    /\ loc.global_timer = "armed"
    /\ loc' = [loc EXCEPT !.global_timer = "fired"]
    /\ UNCHANGED <<config, pc, call, futures, ret, completion, clock, memory, human>>

\* Time passes while a call runs.
Tick ==
    /\ pc = "running"
    /\ clock < MaxTicks
    /\ clock' = clock + 1
    /\ UNCHANGED <<config, pc, call, futures, loc, ret, completion, memory, human>>

\* The plan() of a running child acquires the lock of the shared memory.
ChildLocks(i) ==
    /\ pc = "running"
    /\ config.memory.some
    /\ i \in 1..Len(futures)
    /\ futures[i].status = "running"
    /\ futures[i].plan = Pending
    /\ memory.guard = NoHolder
    /\ memory' = [memory EXCEPT !.guard = ChildHolds(i)]
    /\ UNCHANGED <<config, pc, call, futures, loc, ret, completion, clock, human>>

\* The child that holds the lock adds a message and releases the lock.
ChildWrites(i) ==
    /\ pc = "running"
    /\ memory.guard = ChildHolds(i)
    /\ Len(memory.messages) < MaxMessages
    /\ memory' = [messages |-> Append(memory.messages, ChildMessage), guard |-> NoHolder]
    /\ UNCHANGED <<config, pc, call, futures, loc, ret, completion, clock, human>>

\* The task of the call has been woken: some awaited future has not been
\* polled yet, or can answer, or a deadline has passed.
Woken ==
    \/ Len(loc.awaiting) = 0
    \/ loc.global_timer = "fired"
    \/ \E k \in 1..Len(loc.awaiting) :
          LET f == futures[loc.awaiting[k]]
          IN  \/ f.status = "created"
              \/ f.status = "running" /\ (f.plan # Pending \/ f.timer = "fired")

\* The executor polls the future of the call: the routine of the pattern
\* and, when it returns, the tail of execute() and of TeamAgent::plan.
Poll ==
    /\ pc = "running"
    /\ Woken
    /\ LET m == poll(config, futures, loc, call.inputs)
           team_result == execute_returns(m.ret, call.start_time)
       IN  /\ futures' = m.futures
           /\ pc' = m.pc
           /\ memory' = release_guards(memory, m.futures)
           /\ IF m.pc = "returned"
              THEN /\ loc' = [m.loc EXCEPT !.team_result = team_result]
                   /\ ret' = IF call.facade THEN TeamAgent_plan(team_result) ELSE team_result
              ELSE /\ loc' = m.loc
                   /\ ret' = m.ret
    /\ UNCHANGED <<config, call, completion, clock, human>>

Next ==
    \/ \E inputs \in Inputs : Execute(inputs)
    \/ \E i \in 1..Len(futures) : PlanFinish(i)
    \/ \E i \in 1..Len(futures) : PlanAction(i)
    \/ \E i \in 1..Len(futures) : PlanError(i)
    \/ \E i \in 1..Len(futures) : TimerFires(i)
    \/ GlobalTimerFires
    \/ Poll

Spec == Init /\ [][Next]_vars

\* The teams of the runs that follow the team agent and the clock: teams of
\* MaxChildren children whose first child has a timeout and is critical or
\* not, in every pattern.
AgentTeams ==
    {e \in Executors :
        /\ Len(e.child_agents) = MaxChildren
        /\ e.break_on_error /\ e.global_timeout.some
        /\ e.child_agents[1].timeout.some
        /\ \A i \in 2..Len(e.child_agents) :
              ~e.child_agents[i].critical /\ ~e.child_agents[i].timeout.some}

\* The configurations behind a TeamAgent: with and without the fields the
\* builder sets for the agent (builder.rs:108-124).

AgentConfigs ==
    {[c EXCEPT !.prefix = o.prefix, !.memory = o.memory,
               !.use_coordination_prompts = o.use_coordination_prompts]
        : c \in AgentTeams,
          o \in {[prefix |-> None, memory |-> None, use_coordination_prompts |-> FALSE],
                 [prefix |-> Some(<<"p">>), memory |-> Some("shared"),
                  use_coordination_prompts |-> TRUE]}}

\* The team agents TeamAgent::new builds.
InitAgent ==
    /\ config \in AgentConfigs
    /\ pc = "idle"
    /\ call = NoCall
    /\ futures = <<>>
    /\ loc = LocIdle
    /\ ret = NotReturned
    /\ completion = <<>>
    /\ clock = 0
    /\ memory = MemoryInit
    /\ human = NoHuman

NextAgent ==
    \/ \E inputs \in Inputs : Plan(inputs)
    \/ \E i \in 1..Len(futures) : PlanFinish(i)
    \/ \E i \in 1..Len(futures) : PlanAction(i)
    \/ \E i \in 1..Len(futures) : PlanError(i)
    \/ \E i \in 1..Len(futures) : TimerFires(i)
    \/ GlobalTimerFires
    \/ Poll
    \/ \E i \in 1..Len(futures) : ChildLocks(i)
    \/ \E i \in 1..Len(futures) : ChildWrites(i)

SpecAgent == InitAgent /\ [][NextAgent]_vars

\* The executor, called directly, with the clock running.
InitTime ==
    /\ config \in AgentTeams
    /\ pc = "idle"
    /\ call = NoCall
    /\ futures = <<>>
    /\ loc = LocIdle
    /\ ret = NotReturned
    /\ completion = <<>>
    /\ clock = 0
    /\ memory = MemoryInit
    /\ human = NoHuman

NextTime ==
    \/ \E inputs \in {PlainInputs} : Execute(inputs)
    \/ \E i \in 1..Len(futures) : PlanFinish(i)
    \/ \E i \in 1..Len(futures) : PlanAction(i)
    \/ \E i \in 1..Len(futures) : PlanError(i)
    \/ \E i \in 1..Len(futures) : TimerFires(i)
    \/ GlobalTimerFires
    \/ Poll
    \/ Tick

SpecTime == InitTime /\ [][NextTime]_vars

TypeOK ==
    /\ pc \in {"idle", "running", "returned"}
    /\ ret.tag \in {"None", "Ok", "Err"}
    /\ (pc = "returned") = (ret.tag # "None")

----------------------------------------------------------------------------
\* What the checks below read of a state.  A deadline and an answer that
\* become ready between two polls are simultaneous for the engine: what
\* counts is what the poll finds.

Pattern == config.execution_pattern.tag
NChildren == Len(config.child_agents)
ChildOfFuture(i) == config.child_agents[futures[i].child]
FutureIds == 1..Len(futures)

\* plan() has been called: the future was polled at least once.
Invoked(i) == futures[i].status \in {"running", "done", "failed", "cancelled"}

\* The poll found the internal failure of a non-critical child.
FailedSoft(i) == futures[i].status = "done" /\ futures[i].plan.tag = "Err"

\* The poll found the internal failure of a critical child.
FailedCritical(i) == futures[i].status = "failed" /\ futures[i].plan.tag = "Err"

\* The poll found a next-action answer.
AnsweredAction(i) == futures[i].status = "failed" /\ futures[i].plan.tag = "Action"

\* The poll found the child unfinished after its deadline.
Elapsed(i) == futures[i].status = "failed" /\ futures[i].plan = Pending

\* The child was unfinished, after its deadline, at the last poll of the call.
Expired(i) ==
    /\ pc = "returned"
    /\ futures[i].timer = "fired"
    /\ futures[i].plan = Pending

HardFailure(i) == futures[i].status = "failed"

TimeoutText(child) ==
    <<"A", "g", "e", "n", "t", " ">> \o child.id
        \o <<" ", "t", "i", "m", "e", "d", " ", "o", "u", "t", " ", "a", "f", "t", "e", "r", " ">>
        \o u64_to_string(child.timeout.v) \o <<" ", "s", "e", "c", "o", "n", "d", "s">>

\* sub occurs in s.
Contains(s, sub) ==
    \E o \in 0..(Len(s) - Len(sub)) : SubSeq(s, o + 1, o + Len(sub)) = sub

ResultIds(results) == [i \in 1..Len(results) |-> results[i].agent_id]

----------------------------------------------------------------------------
----------------------------------------------------------------------------
\* The batch of the Concurrent pattern was unfinished at the global deadline.
GlobalExpired ==
    /\ pc = "returned" /\ Pattern = "Concurrent"
    /\ config.global_timeout.some /\ loc.global_timer = "fired"
    /\ \E j \in FutureIds : futures[j].status # "done"

ErrorEntry(r) ==
    r.agent_id \o <<":", " ", "E", "R", "R", "O", "R", " ", "-", " ">> \o r.error.v

OutputEntry(r) == r.agent_id \o <<":", " ">> \o r.output

\* C2: in the Concurrent pattern the internal failure of a critical child
\* makes execute() return an error and no result.  The same failure of a
\* non-critical child does not: unless a sibling raises a hard error or the
\* batch is unfinished at the global deadline, execute() returns a result
\* with success = false that holds the outcome of every child in launch
\* order, and whose final_output contains "<id>: ERROR - <message>" for the
\* failed child and "<id>: <output>" for every sibling that finished.
C2_ConcurrentFailure ==
    (pc = "returned" /\ Pattern = "Concurrent") =>
        /\ (\E i \in FutureIds :
                ChildOfFuture(i).critical /\ futures[i].plan.tag = "Err") =>
              ret.tag = "Err"
        /\ \A i \in FutureIds : FailedSoft(i) =>
              IF (\E j \in FutureIds : HardFailure(j)) \/ GlobalExpired
              THEN ret.tag = "Err"
              ELSE /\ ret.tag = "Ok"
                   /\ ~ret.value.success
                   /\ Len(ret.value.child_results) = NChildren
                   /\ Len(futures) = NChildren
                   /\ \A j \in FutureIds :
                         LET r == ret.value.child_results[j]
                         IN  /\ r = futures[j].result.v
                             /\ r.agent_id = config.child_agents[j].id
                             /\ Contains(ret.value.final_output,
                                         IF futures[j].plan.tag = "Err"
                                         THEN ErrorEntry(r) ELSE OutputEntry(r))
                   /\ ret.value.child_results[i].error = Some(ToolFailed)
                   /\ ~Contains(ret.value.final_output,
                                OutputEntry(ret.value.child_results[i]))

\* A Concurrent call returned a result that holds a failed child and a
\* sibling that finished.
C2_Witness ==
    /\ pc = "returned" /\ Pattern = "Concurrent" /\ ret.tag = "Ok"
    /\ \E i, j \in FutureIds : FailedSoft(i) /\ futures[j].plan.tag = "Finish"

----------------------------------------------------------------------------
\* C3: in the Sequential pattern with break_on_error = true, once a
\* non-critical child has produced a failed outcome no later child is
\* invoked, and the result ends with that outcome.  With
\* break_on_error = false the loop goes on: the next child is launched, and
\* the call ends either with an outcome of every child or with the hard
\* error of the last child it invoked.
C3_SequentialBreakOnError ==
    Pattern = "Sequential" =>
        \A i \in FutureIds : FailedSoft(i) =>
            IF config.break_on_error
            THEN /\ Len(futures) = i
                 /\ pc = "returned" /\ ret.tag = "Ok"
                 /\ Len(ret.value.child_results) = i
                 /\ ret.value.child_results[i] = futures[i].result.v
                 /\ \A c \in (i + 1)..NChildren :
                       ~Contains(ret.value.final_output,
                                 config.child_agents[c].id \o <<":">>)
            ELSE /\ i < NChildren =>
                       /\ Len(futures) > i
                       /\ futures[i + 1].child = i + 1
                       /\ pc = "returned" => Invoked(i + 1)
                 /\ pc = "returned" =>
                       \/ /\ ret.tag = "Ok"
                          /\ Len(futures) = NChildren
                          /\ Len(ret.value.child_results) = NChildren
                          /\ \A c \in FutureIds : futures[c].status = "done"
                       \/ /\ ret.tag = "Err"
                          /\ HardFailure(Len(futures))

\* With break_on_error = false the first of three children failed and the
\* call returned an outcome of every child.
C3_Witness ==
    /\ Pattern = "Sequential" /\ ~config.break_on_error /\ NChildren = 3
    /\ pc = "returned" /\ ret.tag = "Ok"
    /\ Len(ret.value.child_results) = 3 /\ FailedSoft(1)

\* C2 as stated: the failure of a non-critical child always makes the
\* Concurrent call return a result with its entry and all sibling outcomes.
C2_Original ==
    (pc = "returned" /\ Pattern = "Concurrent") =>
        /\ (\E i \in FutureIds :
                ChildOfFuture(i).critical /\ futures[i].plan.tag = "Err") =>
              ret.tag = "Err"
        /\ \A i \in FutureIds : FailedSoft(i) =>
              /\ ret.tag = "Ok"
              /\ ~ret.value.success
              /\ Len(ret.value.child_results) = NChildren
              /\ Contains(ret.value.final_output, ErrorEntry(ret.value.child_results[i]))

\* C3 as stated: with break_on_error = false every child declared after a
\* failed one is invoked before the call returns.
C3_Original ==
    Pattern = "Sequential" =>
        \A i \in FutureIds : FailedSoft(i) =>
            IF config.break_on_error
            THEN /\ Len(futures) = i
                 /\ pc = "returned" /\ ret.tag = "Ok"
                 /\ Len(ret.value.child_results) = i
            ELSE pc = "returned" =>
                    \A c \in (i + 1)..NChildren : c <= Len(futures) /\ Invoked(c)

----------------------------------------------------------------------------
PreviousKeys == {"previous_agent_output", "previous_agent_id"}

\* C4: in the Sequential pattern the children are launched in declaration
\* order, child i+1 only when child i has completed with an outcome.  The
\* first child gets the inputContext of the call as it is; child i+1 gets it
\* with previous_agent_output set to the output of child i and
\* previous_agent_id set to the id of child i, and nothing else changed.
\* The team {a: uppercases, b: reverses the previous output} called with
\* "hi" returns final_output "a: HI\n\nb: IH" and success = true.
C4_SequentialChain ==
    Pattern = "Sequential" =>
        /\ \A i \in FutureIds :
              /\ futures[i].child = i
              /\ i = 1 => futures[i].inputs = call.inputs
              /\ i > 1 =>
                    LET prev == futures[i - 1]
                        ctx == futures[i].inputs
                    IN  /\ prev.status = "done"
                        /\ prev.result.some
                        /\ DOMAIN ctx = DOMAIN call.inputs \cup PreviousKeys
                        /\ ctx["previous_agent_output"] = JsonString(prev.result.v.output)
                        /\ ctx["previous_agent_id"] = JsonString(config.child_agents[i - 1].id)
                        /\ \A k \in DOMAIN call.inputs \ PreviousKeys : ctx[k] = call.inputs[k]
        /\ ( /\ pc = "returned"
             /\ NChildren = 2
             /\ call.inputs = [input |-> JsonString(<<"h", "i">>)]
             /\ config.child_agents[1].id = <<"a">> /\ config.child_agents[1].agent = "upper"
             /\ config.child_agents[2].id = <<"b">> /\ config.child_agents[2].agent = "reverse"
             /\ Len(futures) = 2
             /\ \A i \in FutureIds : futures[i].plan.tag = "Finish" /\ futures[i].status = "done" )
           => /\ ret.tag = "Ok"
              /\ ret.value.success
              /\ ret.value.final_output
                    = <<"a", ":", " ", "H", "I", "\n", "\n", "b", ":", " ", "I", "H">>

\* The call of the team {a, b} with "hi" returned, both children finished.
C4_Witness ==
    /\ Pattern = "Sequential" /\ pc = "returned" /\ ret.tag = "Ok"
    /\ NChildren = 2 /\ Len(futures) = 2
    /\ call.inputs = [input |-> JsonString(<<"h", "i">>)]
    /\ futures[1].plan = Finish(<<"H", "I">>)
    /\ futures[2].plan = Finish(<<"I", "H">>)
    /\ futures[2].inputs["previous_agent_id"] = JsonString(<<"a">>)

----------------------------------------------------------------------------
Steps == config.execution_pattern.steps
StepIndices == 0..(Len(Steps) - 1)
StepOutputsKey(j) == "step_" \o ToString(j) \o "_outputs"
Dependencies(k) == {Steps[k + 1].dependencies[n] : n \in 1..Len(Steps[k + 1].dependencies)}

\* The futures of step d, in launch order.
StepFutures(d) == {i \in FutureIds : futures[i].step = d}

\* The (agent_id, output) pairs of the outcomes of step d, in launch order.
RecordedOutputs(d) ==
    LET first == Min(StepFutures(d))
    IN  JsonArray([n \in 1..Cardinality(StepFutures(d)) |->
            [agent_id |-> ChildOfFuture(first + n - 1).id,
             output |-> futures[first + n - 1].result.v.output]])

\* C5: in the Hybrid pattern the context of the agents of step k has, for
\* every declared dependency d, the key step_d_outputs holding all the
\* (agent_id, output) pairs recorded for step d.  For an undeclared j,
\* transitive dependencies included, the engine adds no step_j_outputs: the
\* key is there only when the inputContext of the call has it, with the
\* caller's value.  In the pipeline {step0: [a]; step1: [b, c] concurrent,
\* deps [0]; step2: [d], deps [1]} the context of d has the outputs of b and
\* c under step 1 and no output of a.
C5_HybridDependencies ==
    Pattern = "Hybrid" =>
        /\ \A i \in FutureIds : \A j \in StepIndices :
              LET ctx == futures[i].inputs
                  k == futures[i].step
              IN  /\ StepOutputsKey(j) \in DOMAIN ctx
                        <=> (j \in Dependencies(k) \/ StepOutputsKey(j) \in DOMAIN call.inputs)
                  /\ j \in Dependencies(k) =>
                        /\ \A n \in StepFutures(j) : futures[n].status = "done"
                        /\ Cardinality(StepFutures(j)) = Len(Steps[j + 1].agent_ids)
                        /\ ctx[StepOutputsKey(j)] = RecordedOutputs(j)
                  /\ (j \notin Dependencies(k) /\ StepOutputsKey(j) \in DOMAIN ctx) =>
                        ctx[StepOutputsKey(j)] = call.inputs[StepOutputsKey(j)]
        /\ (NChildren = 4 /\ Len(futures) = 4 /\ Len(Steps) = 3) =>
              LET ctx == futures[4].inputs
              IN  /\ ctx["step_1_outputs"]
                        = JsonArray(<<[agent_id |-> <<"b">>, output |-> futures[2].result.v.output],
                                      [agent_id |-> <<"c">>, output |-> futures[3].result.v.output]>>)
                  /\ \A key \in DOMAIN ctx :
                        ctx[key].json = "array" =>
                            \/ key = "step_1_outputs"
                            \/ key \in DOMAIN call.inputs /\ ctx[key] = call.inputs[key]

\* The last step of the pipeline was launched with the outputs of step 1.
C5_Witness ==
    /\ Pattern = "Hybrid" /\ NChildren = 4 /\ Len(futures) = 4
    /\ "step_1_outputs" \in DOMAIN futures[4].inputs
    /\ "step_0_outputs" \notin DOMAIN futures[4].inputs
    /\ Len(futures[4].inputs["step_1_outputs"].a) = 2

\* C5 as stated: the context of step k has step_j_outputs exactly for the
\* declared dependencies j of step k.
C5_Original ==
    Pattern = "Hybrid" =>
        \A i \in FutureIds : \A j \in StepIndices :
            LET ctx == futures[i].inputs
                k == futures[i].step
            IN  /\ StepOutputsKey(j) \in DOMAIN ctx <=> j \in Dependencies(k)
                /\ j \in Dependencies(k) => ctx[StepOutputsKey(j)] = RecordedOutputs(j)

----------------------------------------------------------------------------
\* C6: if a child has a timeout and is unfinished at its deadline, execute()
\* returns an error, whether the child is critical or not and in every
\* pattern, and the child gets no outcome.  The error names the id of the
\* child and the configured seconds, unless a sibling launched before it in
\* the same concurrent batch raises a hard error at the same poll: the error
\* is then the one of that sibling.
C6_ChildTimeout ==
    pc = "returned" =>
        \A i \in FutureIds :
            (ChildOfFuture(i).timeout.some /\ Expired(i)) =>
                /\ ret.tag = "Err"
                /\ ~futures[i].result.some
                /\ futures[i].status \in {"failed", "cancelled"}
                /\ Elapsed(i) => ret.error = OtherError(TimeoutText(ChildOfFuture(i)))
                /\ ~Elapsed(i) =>
                      \E j \in 1..(i - 1) :
                          /\ HardFailure(j)
                          /\ futures[j].step = futures[i].step
                          /\ Awaited(j) /\ Awaited(i)
                          /\ Len(loc.awaiting) > 1

\* A Hybrid call returned the timeout error of a non-critical child.
C6_Witness ==
    /\ pc = "returned" /\ Pattern = "Hybrid"
    /\ \E i \in FutureIds :
          /\ ~ChildOfFuture(i).critical
          /\ Elapsed(i)
          /\ ret = Err(OtherError(TimeoutText(ChildOfFuture(i))))

\* C6 as stated: the error of the call names every child that was unfinished
\* at its deadline.
C6_Original ==
    pc = "returned" =>
        \A i \in FutureIds :
            (ChildOfFuture(i).timeout.some /\ Expired(i)) =>
                /\ ret = Err(OtherError(TimeoutText(ChildOfFuture(i))))
                /\ ~futures[i].result.some

----------------------------------------------------------------------------
----------------------------------------------------------------------------
\* C8: in the Concurrent pattern with global_timeout set, when the batch is
\* unfinished at the global deadline execute() returns an error and no
\* result: the error carries no outcome of the children that had completed,
\* the children in flight are cancelled, and a cancelled child never changes
\* afterwards.
C8_GlobalTimeout ==
    /\ [](GlobalExpired =>
            /\ ret.tag = "Err"
            /\ (\A j \in FutureIds : ~HardFailure(j)) =>
                  ret = Err([variant |-> "OtherError",
                             msg |-> <<"G", "l", "o", "b", "a", "l", " ",
                                       "t", "i", "m", "e", "o", "u", "t", " ",
                                       "e", "x", "c", "e", "e", "d", "e", "d">>])
            /\ \A j \in FutureIds :
                  /\ futures[j].status \notin {"created", "running"}
                  /\ (futures[j].status # "done" /\ \A h \in FutureIds : ~HardFailure(h)) =>
                        futures[j].status = "cancelled" /\ ~futures[j].result.some)
    /\ [][GlobalExpired =>
            \/ futures' = futures
            \/ \A i \in 1..Len(futures') : futures'[i].status = "created"]_vars

\* The global deadline ended a Concurrent call in which one child had
\* completed and another was still running.
C8_Witness ==
    /\ GlobalExpired
    /\ ret = Err(OtherError(GlobalTimeoutExceeded))
    /\ \E i, j \in FutureIds :
          futures[i].status = "done" /\ futures[j].status = "cancelled"

----------------------------------------------------------------------------
\* C9: the outcomes of a concurrent batch are reported in launch order, the
\* order of the children in the declaration (Concurrent) or of the ids in
\* the step (concurrent Hybrid step), in whatever order the children answer.
C9_LaunchOrder ==
    (pc = "returned" /\ ret.tag = "Ok") =>
        /\ Pattern = "Concurrent" =>
              /\ ResultIds(ret.value.child_results) = ids_of(config.child_agents)
              /\ \A i \in FutureIds : ret.value.child_results[i] = futures[i].result.v
        /\ Pattern = "Hybrid" =>
              \A k \in StepIndices :
                  (Steps[k + 1].concurrent /\ StepFutures(k) # {}) =>
                      LET first == Min(StepFutures(k))
                      IN  \A n \in 1..Len(Steps[k + 1].agent_ids) :
                              /\ ret.value.child_results[first + n - 1].agent_id
                                    = Steps[k + 1].agent_ids[n]
                              /\ ret.value.child_results[first + n - 1]
                                    = futures[first + n - 1].result.v
                              /\ futures[first + n - 1].step = k

\* A child of a concurrent Hybrid step answered before a sibling launched
\* before it, and the call returned a result.
C9_Witness ==
    /\ pc = "returned" /\ ret.tag = "Ok" /\ Pattern = "Hybrid"
    /\ \E p, q \in 1..Len(completion) :
          /\ p < q
          /\ completion[p] > completion[q]
          /\ futures[completion[p]].step = futures[completion[q]].step
          /\ Steps[futures[completion[p]].step + 1].concurrent

----------------------------------------------------------------------------
\* C10: when execute() has returned, with a result or with an error, no
\* child invocation it started is still running: every invoked child has
\* completed or has been cancelled, none can answer any more, and nothing
\* of the call changes until the next call.
C10_NoChildOutlivesCall ==
    /\ [](pc = "returned" =>
            /\ ret.tag \in {"Ok", "Err"}
            /\ \A i \in FutureIds :
                  /\ futures[i].status \notin {"created", "running"}
                  /\ Invoked(i) => futures[i].status \in {"done", "failed", "cancelled"}
                  /\ futures[i].status = "done" <=> futures[i].result.some
                  /\ ~CanResolve(i))
    /\ [][pc = "returned" =>
            \/ futures' = futures
            \/ \A i \in 1..Len(futures') : futures'[i].status = "created"]_vars

\* A call returned an error while a sibling of the failed child was running:
\* the sibling is cancelled.
C10_Witness ==
    /\ pc = "returned" /\ ret.tag = "Err"
    /\ \E i, j \in FutureIds : FailedCritical(i) /\ futures[j].status = "cancelled"

----------------------------------------------------------------------------
----------------------------------------------------------------------------
\* The futures launched together with future i in a concurrent batch: all
\* the futures of a Concurrent call, the futures of the step of i in a
\* concurrent Hybrid step.
BatchOf(i) ==
    IF Pattern = "Concurrent" THEN FutureIds
    ELSE IF Pattern = "Hybrid" /\ Steps[futures[i].step + 1].concurrent
    THEN StepFutures(futures[i].step)
    ELSE {i}

\* C12: in a concurrent batch, when the poll finds the failure of a critical
\* child the call returns that error, and every sibling that has not
\* completed is cancelled, or never invoked, and can never answer.  The
\* failure of a non-critical child cancels nothing: while the call runs the
\* siblings of the batch keep running, and when the call has returned every
\* sibling of the batch has completed, unless a child raised a hard error or
\* the batch was unfinished at the global deadline.
C12_FailFastOnlyForCritical ==
    \A i \in FutureIds :
        /\ (ChildOfFuture(i).critical /\ futures[i].plan.tag = "Err"
                /\ futures[i].status \in {"done", "failed"}) =>
              /\ FailedCritical(i)
              /\ pc = "returned"
              /\ ret = Err(futures[i].plan.error)
              /\ \A j \in BatchOf(i) \ {i} :
                    /\ futures[j].status \in {"done", "cancelled", "dropped"}
                    /\ futures[j].status # "done" => ~futures[j].result.some
                    /\ ~CanResolve(j)
        /\ (~ChildOfFuture(i).critical /\ futures[i].plan.tag = "Err"
                /\ futures[i].status \in {"done", "failed"}
                /\ Cardinality(BatchOf(i)) > 1) =>
              /\ FailedSoft(i)
              /\ pc = "running" =>
                    \A j \in BatchOf(i) : futures[j].status \in {"created", "running", "done"}
              /\ pc = "returned" =>
                    \/ \A j \in BatchOf(i) : futures[j].status = "done"
                    \/ \E h \in BatchOf(i) : HardFailure(h)
                    \/ GlobalExpired

\* A non-critical child of a concurrent batch failed, a sibling answered
\* after it, and the call returned the outcomes of both.
C12_Witness ==
    /\ pc = "returned" /\ ret.tag = "Ok"
    /\ \E i \in FutureIds : \E j \in BatchOf(i) \ {i} :
          /\ FailedSoft(i)
          /\ futures[j].status = "done"
          /\ \E p, q \in 1..Len(completion) :
                p < q /\ completion[p] = i /\ completion[q] = j

----------------------------------------------------------------------------
\* C13: in the Hybrid pattern with break_on_error = true, once a failed
\* outcome is recorded no step with a higher index is started: no future of
\* a later step exists, inside a non-concurrent step no later agent of the
\* step is invoked either, and a result that is returned holds exactly the
\* outcomes produced up to the end of the step of the failure.
C13_HybridBreakOnError ==
    (Pattern = "Hybrid" /\ config.break_on_error) =>
        \A i \in FutureIds : FailedSoft(i) =>
            /\ \A j \in FutureIds : futures[j].step <= futures[i].step
            /\ ~Steps[futures[i].step + 1].concurrent => Len(futures) = i
            /\ (pc = "returned" /\ ret.tag = "Ok") =>
                  /\ Len(ret.value.child_results) = Len(futures)
                  /\ \A j \in FutureIds :
                        /\ futures[j].status = "done"
                        /\ ret.value.child_results[j] = futures[j].result.v
                  /\ ~ret.value.success
            /\ pc = "returned" =>
                  \/ ret.tag = "Ok"
                  \/ \E h \in StepFutures(futures[i].step) : HardFailure(h)

\* A failed outcome was recorded in a step that is not the last one, and the
\* call returned without starting the next step.
C13_Witness ==
    /\ Pattern = "Hybrid" /\ config.break_on_error
    /\ pc = "returned" /\ ret.tag = "Ok"
    /\ \E i \in FutureIds :
          /\ FailedSoft(i)
          /\ futures[i].step + 1 < Len(Steps)
          /\ \A j \in FutureIds : futures[j].step = futures[i].step

----------------------------------------------------------------------------
\* C14: in every result execute() returns, success is true exactly when
\* every recorded outcome has success = true.
C14_SuccessIsConjunction ==
    (pc = "returned" /\ ret.tag = "Ok") =>
        /\ ret.value.success
              <=> \A k \in 1..Len(ret.value.child_results) :
                      ret.value.child_results[k].success
        /\ ret.value.success <=> \A i \in FutureIds : futures[i].plan.tag = "Finish"

\* A result holds an outcome that succeeded and one that failed.
C14_Witness ==
    /\ pc = "returned" /\ ret.tag = "Ok" /\ ~ret.value.success
    /\ \E k, n \in 1..Len(ret.value.child_results) :
          ret.value.child_results[k].success /\ ~ret.value.child_results[n].success

----------------------------------------------------------------------------
\* The entry of an outcome in final_output.
EntryOf(r) == IF r.success THEN OutputEntry(r) ELSE ErrorEntry(r)

\* The place of entry k in final_output: the lengths of the entries before
\* it and of the separators between them.
RECURSIVE EntryOffset(_, _)
EntryOffset(results, k) ==
    IF k = 1 THEN 0
    ELSE EntryOffset(results, k - 1) + Len(EntryOf(results[k - 1])) + 2

\* C15: final_output is the entries of the recorded outcomes in their order,
\* "<id>: <output>" for a successful outcome and "<id>: ERROR - <message>"
\* for a failed one, with exactly "\n\n" between two consecutive entries and
\* nothing before the first entry or after the last.
C15_FinalOutputFormat ==
    (pc = "returned" /\ ret.tag = "Ok") =>
        LET results == ret.value.child_results
            out == ret.value.final_output
            n == Len(results)
        IN  /\ n > 0
            /\ Len(out) = EntryOffset(results, n) + Len(EntryOf(results[n]))
            /\ \A k \in 1..n :
                  LET o == EntryOffset(results, k)
                      e == EntryOf(results[k])
                  IN  /\ SubSeq(out, o + 1, o + Len(e)) = e
                      /\ k < n => SubSeq(out, o + Len(e) + 1, o + Len(e) + 2) = <<"\n", "\n">>
                      /\ ~results[k].success => results[k].error.some

\* A result with three entries, the second one of a failed outcome.
C15_Witness ==
    /\ pc = "returned" /\ ret.tag = "Ok"
    /\ Len(ret.value.child_results) = 3
    /\ ~ret.value.child_results[2].success
    /\ ret.value.child_results[3].success

----------------------------------------------------------------------------
\* Construction.  A configuration is put together with the builder calls of
\* config.rs, which check nothing; validate() is called by the caller or by
\* the constructors.  The configurations below are the ones validate() has
\* to tell apart: any list of children with ids drawn from two ids, and for
\* the Hybrid pattern any list of steps over these ids with dependencies on
\* any step index up to one past the last.

MaxSteps == 2

SeqsUpTo(S, n) == UNION {[1..m -> S] : m \in 0..n}

ValidateIds == {ChildId(1), ChildId(2)}

\* ChildAgentConfig::new for each id of the list.
children_of(ids) == [i \in 1..Len(ids) |-> ChildAgentConfig_new(ids[i], "upper")]

\* The lists of ids of a step: up to two ids, the same id twice included.
StepAgentIds == SeqsUpTo(ValidateIds, 2)

\* The lists of dependencies of a step: none, one index, or step 0 twice.
StepDependencies == {<<>>, <<0, 0>>} \cup {<<d>> : d \in 0..MaxSteps}

StepChoices ==
    {ExecutionStep(a, FALSE, d) : a \in StepAgentIds, d \in StepDependencies}

\* Teams of the Concurrent and Sequential patterns: up to two more children
\* than ids, every setting of the other fields.
FlatConfigs ==
    {team_config(children_of(ids), p, b, g) :
        ids \in SeqsUpTo(ValidateIds, MaxChildren + 2),
        p \in {Concurrent, Sequential},
        b \in BOOLEAN,
        g \in {None, Some(DefaultGlobalTimeout)}}

HybridConfigs ==
    {team_config(children_of(ids), Hybrid(steps), TRUE, Some(DefaultGlobalTimeout)) :
        ids \in SeqsUpTo(ValidateIds, MaxChildren),
        steps \in SeqsUpTo(StepChoices, MaxSteps)}

Configs == FlatConfigs \cup HybridConfigs

\* Agent::get_tools of a child: the agents of the model have no tools.
get_tools(agent) == <<>>

\* agent.rs:38-42
RECURSIVE collect_tools(_)
collect_tools(children) ==
    IF Len(children) = 0 THEN <<>>
    ELSE get_tools(children[1].agent) \o collect_tools(Tail(children))

\* TeamAgent::new (agent.rs:30-48)
TeamAgent_new(cfg) ==
    LET v == validate(cfg)
        executor == TeamExecutor_new(cfg)
    IN  IF v.tag = "Err" THEN Err(OtherError(v.error))
        ELSE IF executor.tag = "Err" THEN executor
        ELSE Ok([config |-> cfg, executor |-> executor.value,
                 tools |-> collect_tools(cfg.child_agents)])

InitConfig ==
    /\ config \in Configs
    /\ pc = "unbuilt"
    /\ call = NoCall
    /\ futures = <<>>
    /\ loc = LocIdle
    /\ ret = NotReturned
    /\ completion = <<>>
    /\ clock = 0
    /\ memory = MemoryInit
    /\ human = NoHuman

\* TeamAgentConfig::validate is called on the configuration.
Validate ==
    /\ pc = "unbuilt"
    /\ ret' = validate(config)
    /\ pc' = "validated"
    /\ UNCHANGED <<config, call, futures, loc, completion, clock, memory, human>>

\* A constructor answers: with the object, on which execute() can be called
\* from then on, or with the error.
Constructed(r) ==
    /\ pc = "unbuilt"
    /\ ret' = r
    /\ pc' = IF r.tag = "Ok" THEN "idle" ELSE "rejected"
    /\ UNCHANGED <<config, call, futures, loc, completion, clock, memory, human>>

\* TeamExecutor::new is called with the configuration.
NewExecutor == Constructed(TeamExecutor_new(config))

\* TeamAgent::new is called with the configuration.
NewAgent == Constructed(TeamAgent_new(config))

NextConfig ==
    \/ Validate
    \/ NewExecutor
    \/ NewAgent

SpecConfig == InitConfig /\ [][NextConfig]_vars

----------------------------------------------------------------------------
ConfigIds == [i \in 1..Len(config.child_agents) |-> config.child_agents[i].id]

\* Child i has the id of a child declared before it.
Repeats(i) == \E j \in 1..(i - 1) : ConfigIds[j] = ConfigIds[i]



\* C16: validate() fails for every configuration in which two children have
\* the same id, with the error "Duplicate agent ID: <id>" for the id of the
\* first child, in declaration order, that repeats an earlier one; the
\* constructors fail with the same message.
C16_DuplicateIds ==
    (\E i \in 1..Len(ConfigIds) : Repeats(i)) =>
        LET first == CHOOSE i \in 1..Len(ConfigIds) :
                        Repeats(i) /\ \A k \in 1..(i - 1) : ~Repeats(k)
            text == <<"D", "u", "p", "l", "i", "c", "a", "t", "e", " ",
                      "a", "g", "e", "n", "t", " ", "I", "D", ":", " ">> \o ConfigIds[first]
        IN  /\ pc = "validated" => ret = [tag |-> "Err", error |-> text]
            /\ pc # "idle"
            /\ pc = "rejected" => ret = Err(OtherError(text))

\* validate() was called on the children a, b, b, a: the error names b.
C16_Witness ==
    /\ pc = "validated"
    /\ ConfigIds = <<<<"a">>, <<"b">>, <<"b">>, <<"a">>>>
    /\ ret.tag = "Err"
    /\ ret.error[Len(ret.error)] = "b"

----------------------------------------------------------------------------
\* C17: validate() fails for every configuration with no children, whatever
\* the pattern and the other fields, with the error "Team agent must have at
\* least one child agent", and no constructor builds a team from it.
C17_EmptyTeam ==
    Len(config.child_agents) = 0 =>
        LET text == <<"T", "e", "a", "m", " ", "a", "g", "e", "n", "t", " ",
                      "m", "u", "s", "t", " ", "h", "a", "v", "e", " ",
                      "a", "t", " ", "l", "e", "a", "s", "t", " ", "o", "n", "e", " ",
                      "c", "h", "i", "l", "d", " ", "a", "g", "e", "n", "t">>
        IN  /\ pc = "validated" => ret = [tag |-> "Err", error |-> text]
            /\ pc # "idle"
            /\ pc = "rejected" => ret = Err(OtherError(text))

\* A constructor rejected a Hybrid configuration that has steps and no
\* children.
C17_Witness ==
    /\ pc = "rejected"
    /\ Len(config.child_agents) = 0
    /\ config.execution_pattern.tag = "Hybrid"
    /\ Len(config.execution_pattern.steps) > 0

----------------------------------------------------------------------------
ConfigSteps == config.execution_pattern.steps

\* The ids the steps list.
StepIdSet ==
    UNION {{ConfigSteps[k].agent_ids[n] : n \in 1..Len(ConfigSteps[k].agent_ids)}
           : k \in 1..Len(ConfigSteps)}

ChildIdSet == {ConfigIds[i] : i \in 1..Len(ConfigIds)}

\* C18: validate() fails for every Hybrid configuration in which a step lists
\* an id that is the id of no child, or a child id is in no step; in every
\* Hybrid configuration that validates, and in every team built from one,
\* the ids of the steps are the ids of the children.
C18_StepsCoverChildren ==
    config.execution_pattern.tag = "Hybrid" =>
        /\ (pc = "validated" /\ StepIdSet # ChildIdSet) => ret.tag = "Err"
        /\ (pc = "validated" /\ ret.tag = "Ok") => StepIdSet = ChildIdSet
        /\ pc = "rejected" => ret.tag = "Err"
        /\ pc = "idle" => StepIdSet = ChildIdSet
        /\ (pc = "validated" /\ ret.tag = "Err" /\ StepIdSet \subseteq ChildIdSet
                /\ StepIdSet # ChildIdSet
                /\ Len(ConfigIds) > 0
                /\ \A i \in 1..Len(ConfigIds) : ~Repeats(i)
                /\ \A k \in 1..Len(ConfigSteps) :
                      \A n \in 1..Len(ConfigSteps[k].dependencies) :
                          ConfigSteps[k].dependencies[n] < k - 1) =>
              \E i \in 1..Len(ConfigIds) :
                  /\ ConfigIds[i] \notin StepIdSet
                  /\ \A j \in 1..(i - 1) : ConfigIds[j] \in StepIdSet
                  /\ ret.error = <<"A", "g", "e", "n", "t", " ">> \o ConfigIds[i]
                        \o <<" ", "i", "s", " ", "n", "o", "t", " ",
                             "i", "n", "c", "l", "u", "d", "e", "d", " ", "i", "n", " ",
                             "a", "n", "y", " ", "e", "x", "e", "c", "u", "t", "i", "o", "n", " ",
                             "s", "t", "e", "p">>

\* validate() rejected the children a, b with steps that list a only.
C18_Witness ==
    /\ pc = "validated" /\ ret.tag = "Err"
    /\ config.execution_pattern.tag = "Hybrid"
    /\ ConfigIds = <<<<"a">>, <<"b">>>>
    /\ StepIdSet = {<<"a">>}
    /\ \A k \in 1..Len(ConfigSteps) : ConfigSteps[k].dependencies = <<>>

----------------------------------------------------------------------------
\* Step k depends on step d.
DependsOn(k, d) ==
    \E n \in 1..Len(ConfigSteps[k + 1].dependencies) : ConfigSteps[k + 1].dependencies[n] = d

ConfigStepIndices == 0..(Len(ConfigSteps) - 1)

\* C19: validate() fails for every Hybrid configuration in which a step k
\* has a dependency d >= k: a dependency of step 0, a dependency on itself,
\* an index past the last step.  In every Hybrid configuration that
\* validates, and in every team built from one, every dependency is on a
\* strictly earlier step, so no step depends on itself through a chain of
\* dependencies.
C19_DependenciesPointBack ==
    config.execution_pattern.tag = "Hybrid" =>
        LET bad == \E k \in ConfigStepIndices : \E d \in 0..(MaxSteps + 1) :
                       DependsOn(k, d) /\ d >= k
        IN  /\ (pc = "validated" /\ bad) => ret.tag = "Err"
            /\ bad => pc # "idle"
            /\ ((pc = "validated" /\ ret.tag = "Ok") \/ pc = "idle") =>
                  /\ \A k \in ConfigStepIndices : \A d \in 0..(MaxSteps + 1) :
                        DependsOn(k, d) => d < k /\ d \in ConfigStepIndices
                  /\ \A k \in ConfigStepIndices : ~DependsOn(0, k) /\ ~DependsOn(k, k)
                  /\ \A k, d \in ConfigStepIndices : ~(DependsOn(k, d) /\ DependsOn(d, k))

\* validate() rejected a configuration whose only fault is that step 1
\* depends on itself.
C19_Witness ==
    /\ pc = "validated"
    /\ config.execution_pattern.tag = "Hybrid"
    /\ ConfigIds = <<<<"a">>, <<"b">>>>
    /\ StepIdSet = ChildIdSet
    /\ Len(ConfigSteps) = 2
    /\ ConfigSteps[1].dependencies = <<>>
    /\ ConfigSteps[2].dependencies = <<1>>
    /\ ret = [tag |-> "Err",
              error |-> <<"I", "n", "v", "a", "l", "i", "d", " ",
                          "d", "e", "p", "e", "n", "d", "e", "n", "c", "y", ":", " ",
                          "s", "t", "e", "p", " ", "1", " ",
                          "c", "a", "n", "n", "o", "t", " ", "d", "e", "p", "e", "n", "d", " ",
                          "o", "n", " ", "s", "t", "e", "p", " ", "1", " ",
                          "(", "m", "u", "s", "t", " ", "b", "e", " ",
                          "e", "a", "r", "l", "i", "e", "r", ")">>]

----------------------------------------------------------------------------
\* What validate() asks of a configuration, read off config.rs:115-162.
ValidationInvariants ==
    /\ Len(ConfigIds) > 0
    /\ \A i, j \in 1..Len(ConfigIds) : i # j => ConfigIds[i] # ConfigIds[j]
    /\ config.execution_pattern.tag = "Hybrid" =>
          /\ StepIdSet = ChildIdSet
          /\ \A k \in ConfigStepIndices : \A d \in 0..(MaxSteps + 1) :
                DependsOn(k, d) => d < k

\* C20: configuration errors are raised at construction.  TeamExecutor::new
\* and TeamAgent::new answer with the error of validate() for every
\* configuration validate() rejects and with the object for every other one;
\* construction invokes no child; so an executor on which execute() can be
\* called holds a configuration that satisfies the validation invariants.
C20_FailFastAtConstruction ==
    /\ pc = "validated" => (ret.tag = "Ok" <=> ValidationInvariants)
    /\ pc = "rejected" =>
          /\ ~ValidationInvariants
          /\ validate(config).tag = "Err"
          /\ ret = Err([variant |-> "OtherError", msg |-> validate(config).error])
    /\ pc = "idle" =>
          /\ ValidationInvariants
          /\ ret.tag = "Ok"
          /\ ret.value.config = config
          /\ "executor" \in DOMAIN ret.value => ret.value.executor.config = config
    /\ pc \in {"idle", "rejected"} =>
          /\ futures = <<>>
          /\ completion = <<>>
          /\ loc.awaiting = <<>>
    /\ (ENABLED (\E inputs \in Inputs : Execute(inputs))) => pc = "idle"

\* A constructor rejected a Hybrid configuration whose children are fine and
\* whose steps are not.
C20_Witness ==
    /\ pc = "rejected"
    /\ config.execution_pattern.tag = "Hybrid"
    /\ Len(ConfigIds) = 2 /\ ConfigIds[1] # ConfigIds[2]
    /\ ~ValidationInvariants

----------------------------------------------------------------------------
\* The checks of the team agent (SpecAgent).

\* The executor's answer to the call that TeamAgent::plan made.
TeamResult == loc.team_result

\* C21: a call of TeamAgent::plan that returns a value returns a final
\* answer, never a next action, in every pattern and whatever the children
\* answer: the answer is the report of the executor's result and ends with
\* its final_output.  The call returns an error instead, the executor's own,
\* exactly when the executor raised a hard error (a failed critical child, a
\* next-action answer, an expired child, or the expired batch).
C21_FacadeFinishOrError ==
    (pc = "returned" /\ call.facade) =>
        /\ ret.tag \in {"Ok", "Err"}
        /\ ret.tag = TeamResult.tag
        /\ ret.tag = "Ok" =>
              /\ ret.value.tag = "Finish"
              /\ LET out == ret.value.output
                     fin == TeamResult.value.final_output
                 IN  /\ Len(out) >= Len(fin)
                     /\ SubSeq(out, Len(out) - Len(fin) + 1, Len(out)) = fin
                     /\ Contains(out, <<"T", "o", "t", "a", "l", " ", "a", "g", "e", "n", "t", "s", ":", " ">>
                                      \o u64_to_string(Len(TeamResult.value.child_results)))
        /\ ret.tag = "Err" =>
              /\ ret = TeamResult
              /\ (\E i \in FutureIds : HardFailure(i)) \/ GlobalExpired
        /\ ((\E i \in FutureIds : HardFailure(i)) \/ GlobalExpired) => ret.tag = "Err"

\* A call of the agent of a Hybrid team returned the error of a critical
\* child.
C21_Witness ==
    /\ pc = "returned" /\ call.facade /\ Pattern = "Hybrid"
    /\ ret.tag = "Err"
    /\ \E i \in FutureIds : FailedCritical(i)

\* C21 as stated: every call of TeamAgent::plan returns a final answer.
C21_Original ==
    (pc = "returned" /\ call.facade) =>
        /\ ret.tag = "Ok"
        /\ ret.value.tag = "Finish"

----------------------------------------------------------------------------
\* A second call on the same executor.  The children are deterministic when
\* a child answers the same inputs in the same way; the second call then
\* gets, from each child, the answer the child gave in the call observed.
\* The second call runs on another schedule than the observed one: every
\* answer is ready when its future is polled.

Deterministic ==
    \A i, j \in FutureIds :
        (/\ futures[i].child = futures[j].child
         /\ futures[i].inputs = futures[j].inputs
         /\ futures[i].plan # Pending /\ futures[j].plan # Pending)
            => futures[i].plan = futures[j].plan

AnswerOf(child, inputs) ==
    LET same == {i \in FutureIds : /\ futures[i].child = child
                                   /\ futures[i].inputs = inputs
                                   /\ futures[i].plan # Pending}
    IN  IF same = {} THEN Pending ELSE futures[Min(same)].plan

Answered(m) ==
    [i \in 1..Len(m.futures) |->
        IF /\ \E k \in 1..Len(m.loc.awaiting) : m.loc.awaiting[k] = i
           /\ m.futures[i].status \in {"created", "running"}
           /\ m.futures[i].plan = Pending
        THEN [m.futures[i] EXCEPT !.plan = AnswerOf(m.futures[i].child, m.futures[i].inputs)]
        ELSE m.futures[i]]

RECURSIVE SecondCallFrom(_, _, _, _)
SecondCallFrom(cfg, m, inputs, polls) ==
    IF m.pc = "returned" \/ polls = 0 THEN m
    ELSE SecondCallFrom(cfg, poll(cfg, Answered(m), m.loc, inputs), inputs, polls - 1)

\* The call of an executor that holds cfg, a configuration of the same
\* children.
CallOf(cfg, inputs) ==
    SecondCallFrom(cfg, start(cfg, inputs), inputs,
                   2 + NChildren + Len(cfg.execution_pattern.steps) * (NChildren + 2))

SecondCall(inputs) == CallOf(config, inputs)

\* The part of an outcome the children determine.
Outcome(r) == [agent_id |-> r.agent_id, output |-> r.output, success |-> r.success,
               error |-> r.error]

Outcomes(result) == [k \in 1..Len(result.child_results) |-> Outcome(result.child_results[k])]

----------------------------------------------------------------------------
----------------------------------------------------------------------------
\* The checks of the clock (SpecTime).

\* The sum of the durations of the outcomes of a result.
RECURSIVE SumOfDurations(_)
SumOfDurations(results) ==
    IF Len(results) = 0 THEN 0
    ELSE results[1].execution_time_ms + SumOfDurations(Tail(results))

\* C24: in every result execute() returns after a call that took time,
\* total_execution_time_ms is strictly positive, and it is the executor's
\* own measurement of the whole call: the milliseconds between the Instant
\* read when the call started and the return, written over the 0 that
\* aggregate_results left.
C24_TotalDurationPositive ==
    (pc = "returned" /\ ret.tag = "Ok" /\ clock > call.start_time) =>
        /\ ret.value.total_execution_time_ms > 0
        /\ ret.value.total_execution_time_ms = (clock - call.start_time) \div TicksPerMilli

\* A call took time, less than a millisecond, and returned a result.
C24_Witness ==
    /\ pc = "returned" /\ ret.tag = "Ok"
    /\ clock > call.start_time
    /\ ret.value.total_execution_time_ms = 0
    /\ SumOfDurations(ret.value.child_results) = 0

----------------------------------------------------------------------------
\* s is a prefix of t.
IsPrefix(s, t) == Len(s) <= Len(t) /\ SubSeq(t, 1, Len(s)) = s

\* C25: with a shared memory configured, the team agent reads the memory to
\* build the chat history and the coordination context of the call, and
\* never writes it: the messages change only when a child adds one.  It
\* holds the guard of the memory only while it builds that context: in no
\* state of a call, from the creation of the first child future on, does
\* the team agent hold the lock, so a running child that asks for the lock
\* gets it unless another child holds it.
C25_MemoryGuardIsShortLived ==
    /\ [](/\ memory.guard.holder # "engine"
          /\ call.facade =>
                /\ config.memory.some =>
                      /\ "chat_history" \in DOMAIN call.inputs
                      /\ call.inputs["chat_history"].json = "array"
                      /\ IsPrefix(call.inputs["chat_history"].a, memory.messages)
                      /\ ("coordination_context" \in DOMAIN call.inputs)
                            = config.use_coordination_prompts
                /\ ~config.memory.some =>
                      /\ "chat_history" \notin DOMAIN call.inputs
                      /\ "coordination_context" \notin DOMAIN call.inputs
                /\ \A i \in FutureIds :
                      (/\ pc = "running" /\ config.memory.some
                       /\ futures[i].status = "running" /\ futures[i].plan = Pending
                       /\ memory.guard.holder # "child")
                          => ENABLED ChildLocks(i))
    /\ [][memory'.messages # memory.messages =>
              /\ memory.guard.holder = "child"
              /\ memory'.messages = Append(memory.messages, ChildMessage)]_vars

\* During a call of the team agent a child holds the lock of the memory,
\* after a child added a message to it.
C25_Witness ==
    /\ pc = "running" /\ call.facade /\ config.memory.some
    /\ memory.guard.holder = "child"
    /\ futures[memory.guard.future].status = "running"
    /\ Len(memory.messages) = 2
    /\ Len(call.inputs["chat_history"].a) = 1

----------------------------------------------------------------------------
\* The keys the routines of the other patterns add to the inputs of a child.
EngineKeys == PreviousKeys \cup {StepOutputsKey(j) : j \in 0..MaxSteps}

\* C26: in the Concurrent pattern there is one future for each child, in the
\* order of the configuration, and each is created with a copy of the inputs
\* of the call: the inputs of a child have the keys and the values the
\* caller passed, so they hold nothing of a sibling, and the keys
\* previous_agent_output, previous_agent_id and step_*_outputs are in them
\* only as the caller passed them.
C26_ConcurrentInputsIdentical ==
    (Pattern = "Concurrent" /\ pc # "idle") =>
        /\ Len(futures) = NChildren
        /\ \A i \in FutureIds :
              /\ futures[i].child = i
              /\ futures[i].inputs = call.inputs
              /\ DOMAIN futures[i].inputs = DOMAIN call.inputs
              /\ \A k \in EngineKeys :
                    k \in DOMAIN futures[i].inputs =>
                        /\ k \in DOMAIN call.inputs
                        /\ futures[i].inputs[k] = call.inputs[k]

\* A Concurrent call with the plain task returned the outcomes of two
\* children; the inputs of the second child hold the task and nothing else.
C26_Witness ==
    /\ Pattern = "Concurrent" /\ pc = "returned" /\ ret.tag = "Ok"
    /\ NChildren = 2 /\ call.inputs = PlainInputs
    /\ futures[1].status = "done" /\ futures[2].status = "done"
    /\ DOMAIN futures[2].inputs = {"input"}

----------------------------------------------------------------------------
\* The outcomes of the futures of step d, in launch order.
StepResults(d) ==
    LET members == SelectSeq([i \in FutureIds |-> i], LAMBDA i : futures[i].step = d)
    IN  [n \in 1..Len(members) |-> futures[members[n]].result.v]

\* C27: in the Hybrid pattern the steps run in the order of their indices,
\* with a full join between them: the futures are created step after step,
\* and when a future of step k exists every future of every step before k
\* has resolved to an outcome.  The outcomes of every step that has ended
\* are kept under the index of the step, in launch order, for as long as
\* the call runs and until it returns.
C27_HybridFullJoin ==
    (Pattern = "Hybrid" /\ pc # "idle") =>
        /\ \A i, j \in FutureIds : i < j => futures[i].step <= futures[j].step
        /\ \A i, j \in FutureIds :
              futures[j].step < futures[i].step =>
                  /\ futures[j].status = "done"
                  /\ futures[j].step < Len(loc.step_outputs)
        /\ \A i \in FutureIds : futures[i].step <= loc.step_idx
        /\ pc = "running" => Len(loc.step_outputs) = loc.step_idx
        /\ pc = "returned" =>
              Len(loc.step_outputs) = IF ret.tag = "Ok" THEN loc.step_idx + 1 ELSE loc.step_idx
        /\ \A k \in 0..(Len(loc.step_outputs) - 1) :
              /\ loc.step_outputs[k + 1] = StepResults(k)
              /\ \A i \in StepFutures(k) : futures[i].status = "done"

\* The second step of a Hybrid team runs: its agent has been invoked, and
\* the outcomes of the two agents of the first step are kept under index 0.
C27_Witness ==
    /\ Pattern = "Hybrid" /\ pc = "running"
    /\ loc.step_idx = 1
    /\ Len(loc.step_outputs) = 1 /\ Len(loc.step_outputs[1]) = 2
    /\ \E i \in StepFutures(1) : futures[i].status = "running"

----------------------------------------------------------------------------
\* The Sequential team of the children of the configuration.
AsSequential == [config EXCEPT !.execution_pattern = Sequential]

\* Step 0 is a non-concurrent step of all the children, in their order.
StepZeroIsTheTeam ==
    /\ Len(Steps) >= 1
    /\ ~Steps[1].concurrent
    /\ Steps[1].agent_ids = [i \in 1..NChildren |-> config.child_agents[i].id]

\* C28: a non-concurrent step of the Hybrid pattern runs as the Sequential
\* routine does, over the agents of the step.  The agents are invoked one at
\* a time in the order in which the step lists them, each when the one
\* before it has answered; each agent after the first receives the inputs of
\* the one before it with previous_agent_output and previous_agent_id set
\* to that agent's output and id; and with break_on_error = true no agent of
\* the step is invoked after a failed outcome.  When the step lists all the
\* children, its outcomes are those of the Sequential team of these children
\* called with the same inputs.
C28_SequentialStep ==
    Pattern = "Hybrid" =>
        /\ \A i \in FutureIds :
              LET d == futures[i].step
                  first == Min(StepFutures(d))
                  n == i - first + 1
              IN  ~Steps[d + 1].concurrent =>
                    /\ n <= Len(Steps[d + 1].agent_ids)
                    /\ ChildOfFuture(i).id = Steps[d + 1].agent_ids[n]
                    /\ n > 1 =>
                          LET prev == futures[i - 1]
                          IN  /\ prev.step = d /\ prev.status = "done"
                              /\ futures[i].inputs
                                    = [k \in DOMAIN prev.inputs \cup PreviousKeys |->
                                          IF k = "previous_agent_output"
                                          THEN JsonString(prev.result.v.output)
                                          ELSE IF k = "previous_agent_id"
                                          THEN JsonString(config.child_agents[prev.child].id)
                                          ELSE prev.inputs[k]]
                    /\ (config.break_on_error /\ FailedSoft(i)) =>
                          /\ \A j \in StepFutures(d) : j <= i
                          /\ Len(futures) = i
        /\ (StepZeroIsTheTeam /\ Len(loc.step_outputs) >= 1 /\ Deterministic) =>
              LET sequential == CallOf(AsSequential, call.inputs)
              IN  /\ sequential.pc = "returned" /\ sequential.ret.tag = "Ok"
                  /\ Outcomes(sequential.ret.value)
                        = [k \in 1..Len(loc.step_outputs[1]) |-> Outcome(loc.step_outputs[1][k])]

\* In a non-concurrent step of two agents, with break_on_error = false, the
\* first agent failed and the second was invoked with the failure as the
\* previous output.
C28_Witness ==
    /\ Pattern = "Hybrid" /\ ~config.break_on_error /\ StepZeroIsTheTeam
    /\ Len(loc.step_outputs) >= 1 /\ Deterministic
    /\ FailedSoft(1)
    /\ Len(futures) >= 2 /\ futures[2].step = 0 /\ futures[2].status = "done"
    /\ futures[2].inputs["previous_agent_id"] = JsonString(config.child_agents[1].id)

----------------------------------------------------------------------------
\* A team agent as a child of an outer team.  The plan() of the nested child
\* is TeamAgent::plan of the inner team: what the inner call returned is the
\* answer the outer executor finds when it polls the child.

NestedId == <<"t">>

OuterTeam(pattern, critical) ==
    with_execution_pattern(
        add_child_agent(TeamAgentConfig_default,
                        with_critical(new_team_agent(NestedId, "team"), critical)),
        pattern)

NestedAnswer == IF ret.tag = "Ok" THEN ret.value ELSE ret

\* The call of the outer team, polled when the inner call has returned.
OuterCall(pattern, critical) ==
    LET cfg == OuterTeam(pattern, critical)
        m == start(cfg, PlainInputs)
        fs == [m.futures EXCEPT ![1].plan = NestedAnswer]
    IN  poll(cfg, fs, m.loc, PlainInputs)

\* The hard errors of the inner call.
InnerCriticalFailure == \E i \in FutureIds : FailedCritical(i)
InnerContractViolation == \E i \in FutureIds : AnsweredAction(i)
InnerChildTimeout == \E i \in FutureIds : Elapsed(i)
InnerBatchTimeout == GlobalExpired /\ ret = Err(OtherError(GlobalTimeoutExceeded))

\* C29: a team agent nested as a child never answers its outer team with a
\* next action, so the outer team never raises a contract violation on
\* account of it.  Every hard error of the inner call (a failed critical
\* child, a contract violation, an expired child, the expired batch) is the
\* internal failure of the nested child in the outer team: the outer call
\* returns this error when the nested child is critical, and records a failed
\* outcome with the text of the error when it is not.
C29_NestedFailureIsOrdinary ==
    (pc = "returned" /\ call.facade) =>
        /\ NestedAnswer.tag \in {"Finish", "Err"}
        /\ (InnerCriticalFailure \/ InnerContractViolation
                \/ InnerChildTimeout \/ InnerBatchTimeout) => ret.tag = "Err"
        /\ \A pattern \in {Sequential, Concurrent} :
              LET aborted == OuterCall(pattern, TRUE)
                  recorded == OuterCall(pattern, FALSE)
              IN  /\ aborted.pc = "returned" /\ recorded.pc = "returned"
                  /\ aborted.futures[1].plan.tag # "Action"
                  /\ recorded.futures[1].plan.tag # "Action"
                  /\ ret.tag = "Err" =>
                        /\ aborted.ret = Err(ret.error)
                        /\ recorded.ret.tag = "Ok"
                        /\ ~recorded.ret.value.success
                        /\ recorded.ret.value.child_results
                              = <<ChildAgentResult(NestedId, ErrorColon \o to_string(ret.error),
                                                   FALSE, Some(to_string(ret.error)), 0)>>
                  /\ ret.tag = "Ok" =>
                        /\ aborted.ret.tag = "Ok" /\ aborted.ret.value.success
                        /\ aborted.ret = recorded.ret
                        /\ aborted.ret.value.child_results[1].output = ret.value.output

\* A child of the inner team answered with a next action: the inner call
\* returned the contract violation as an error.
C29_Witness ==
    /\ pc = "returned" /\ call.facade
    /\ InnerContractViolation
    /\ ret = Err(OtherError(ActionInsteadOfFinish))

\* The other hard errors of the inner call happen as well.
C29_InnerCriticalFailureHappens ==
    pc = "returned" /\ call.facade /\ InnerCriticalFailure /\ ret = Err(ChildError)

C29_InnerChildTimeoutHappens ==
    /\ pc = "returned" /\ call.facade /\ InnerChildTimeout
    /\ \E i \in FutureIds : ret = Err(OtherError(TimeoutText(ChildOfFuture(i))))

C29_InnerBatchTimeoutHappens ==
    pc = "returned" /\ call.facade /\ InnerBatchTimeout

----------------------------------------------------------------------------
\* The steps, in order, in which the id is listed.
StepsListing(id) ==
    {k \in ConfigStepIndices :
        \E i \in 1..Len(ConfigSteps[k + 1].agent_ids) : ConfigSteps[k + 1].agent_ids[i] = id}

\* C30: validate() rejects nothing but what its checks name.  It answers Ok
\* for every configuration with at least one child and distinct child ids
\* that, under the Hybrid pattern, lists only ids of children in its steps,
\* lists every child in some step, and has every dependency on a strictly
\* earlier step.  Among the configurations it accepts are Hybrid patterns
\* with a step without agents, with an id in several steps, with an id twice
\* in one step, and with a dependency index repeated in one step.  The
\* constructors build the team from each of them.
C30_ValidateAcceptsTheRest ==
    LET accepted ==
            /\ Len(ConfigIds) >= 1
            /\ \A i, j \in 1..Len(ConfigIds) : ConfigIds[i] = ConfigIds[j] => i = j
            /\ config.execution_pattern.tag = "Hybrid" =>
                  /\ \A k \in ConfigStepIndices :
                        LET step == ConfigSteps[k + 1]
                        IN  /\ \A i \in 1..Len(step.agent_ids) :
                                  \E c \in 1..Len(ConfigIds) : ConfigIds[c] = step.agent_ids[i]
                            /\ \A i \in 1..Len(step.dependencies) : step.dependencies[i] < k
                  /\ \A c \in 1..Len(ConfigIds) : StepsListing(ConfigIds[c]) # {}
    IN  accepted =>
            /\ pc = "validated" => ret = Ok(<<>>)
            /\ pc # "rejected"

\* validate() accepted the Hybrid pattern of the children a and b whose step
\* 0 lists a twice and whose step 1 lists b and a and depends on step 0
\* twice.
C30_Witness ==
    /\ pc = "validated" /\ ret = Ok(<<>>)
    /\ ConfigIds = <<<<"a">>, <<"b">>>>
    /\ config.execution_pattern.tag = "Hybrid"
    /\ Len(ConfigSteps) = 2
    /\ ConfigSteps[1].agent_ids = <<<<"a">>, <<"a">>>>
    /\ ConfigSteps[2].agent_ids = <<<<"b">>, <<"a">>>>
    /\ ConfigSteps[2].dependencies = <<0, 0>>

\* validate() accepted a Hybrid pattern one of whose steps has no agents.
C30_EmptyStepAccepted ==
    /\ pc = "validated" /\ ret = Ok(<<>>)
    /\ config.execution_pattern.tag = "Hybrid"
    /\ \E k \in ConfigStepIndices : ConfigSteps[k + 1].agent_ids = <<>>

----------------------------------------------------------------------------
\* C31: every result execute() returns holds at least one outcome, in the
\* three patterns and for both values of break_on_error: success is never
\* true over an empty list of outcomes.
C31_ResultIsNotEmpty ==
    (pc = "returned" /\ ret.tag = "Ok") =>
        /\ Len(ret.value.child_results) >= 1
        /\ ret.value.success => \E k \in 1..Len(ret.value.child_results) :
                                    ret.value.child_results[k].success

\* A Hybrid call whose first and last steps have no agents returned a result
\* with the outcomes of the steps between them.
C31_Witness ==
    /\ pc = "returned" /\ ret.tag = "Ok" /\ Pattern = "Hybrid"
    /\ Len(Steps) = 4 /\ Steps[1].agent_ids = <<>> /\ Steps[4].agent_ids = <<>>
    /\ Len(loc.step_outputs) = 4
    /\ loc.step_outputs[1] = <<>> /\ loc.step_outputs[4] = <<>>
    /\ Len(ret.value.child_results) = 4

----------------------------------------------------------------------------
\* The children with the id of the outcome.
DeclaredAs(r) == {i \in 1..NChildren : config.child_agents[i].id = r.agent_id}

AllCritical == \A i \in 1..NChildren : config.child_agents[i].critical

\* The executor of the same children with the other value of break_on_error.
OtherBreakOnError == [config EXCEPT !.break_on_error = ~@]

\* C32: in every result execute() returns, each outcome with success = false
\* is the outcome of a child declared with critical = false.  When every
\* child of the team is critical, every result returned has success = true
\* and no failed outcome, and break_on_error has no effect: the executor of
\* the same children with the other value of break_on_error returns, for the
\* same inputs and the same answers of the children, the same result.
C32_FailedOutcomesAreNotCritical ==
    (pc = "returned" /\ ret.tag = "Ok") =>
        /\ \A k \in 1..Len(ret.value.child_results) :
              LET r == ret.value.child_results[k]
              IN  ~r.success =>
                    /\ DeclaredAs(r) # {}
                    /\ \A i \in DeclaredAs(r) : ~config.child_agents[i].critical
        /\ AllCritical =>
              /\ ret.value.success
              /\ \A k \in 1..Len(ret.value.child_results) : ret.value.child_results[k].success
              /\ Deterministic =>
                    LET other == CallOf(OtherBreakOnError, call.inputs)
                    IN  /\ other.pc = "returned" /\ other.ret.tag = "Ok"
                        /\ Outcomes(other.ret.value) = Outcomes(ret.value)
                        /\ other.ret.value.final_output = ret.value.final_output
                        /\ other.ret.value.success = ret.value.success

\* A team with a critical child and a child that is not critical returned a
\* result whose only failed outcome is of the second.
C32_Witness ==
    /\ pc = "returned" /\ ret.tag = "Ok"
    /\ NChildren = 2
    /\ config.child_agents[1].critical /\ ~config.child_agents[2].critical
    /\ Len(ret.value.child_results) = 2
    /\ ret.value.child_results[1].success
    /\ ~ret.value.child_results[2].success
    /\ ret.value.child_results[2].agent_id = config.child_agents[2].id

\* A team of critical children with break_on_error = true returned a result.
C32_AllCriticalReturns ==
    /\ pc = "returned" /\ ret.tag = "Ok" /\ AllCritical /\ Deterministic
    /\ config.break_on_error /\ NChildren >= 2 /\ Pattern # "Concurrent"

----------------------------------------------------------------------------
\* The outcomes on record: of the futures, of the routine, of the result.
RecordedOutcomes ==
    {futures[i].result.v : i \in {j \in FutureIds : futures[j].result.some}}
    \cup {loc.results[k] : k \in 1..Len(loc.results)}
    \cup {loc.all_results[k] : k \in 1..Len(loc.all_results)}
    \cup UNION {{loc.step_outputs[d][k] : k \in 1..Len(loc.step_outputs[d])}
                : d \in 1..Len(loc.step_outputs)}
    \cup (IF pc = "returned" /\ ret.tag = "Ok"
          THEN {ret.value.child_results[k] : k \in 1..Len(ret.value.child_results)}
          ELSE {})

FailureText == ErrorColon \o to_string(ChildError)

\* C33: every recorded outcome is well formed.  success = true exactly when
\* error is absent; a failed outcome has the message of the child's error in
\* error and "Error: " followed by that message as output.  That output is
\* the text later children receive as previous_agent_output and in the
\* entries of step_d_outputs.  The final_output of a result never has the
\* text "Unknown error".
C33_OutcomesAreWellFormed ==
    /\ \A r \in RecordedOutcomes :
          /\ r.success <=> ~r.error.some
          /\ ~r.success =>
                /\ r.error = Some(to_string(ChildError))
                /\ r.output = ErrorColon \o r.error.v
    /\ \A i \in FutureIds :
          /\ (/\ i > 1 /\ FailedSoft(i - 1)
              /\ futures[i - 1].step = futures[i].step
              /\ Pattern = "Sequential" \/ (Pattern = "Hybrid" /\ ~Steps[futures[i].step + 1].concurrent))
                => futures[i].inputs["previous_agent_output"] = JsonString(FailureText)
          /\ Pattern = "Hybrid" =>
                \A d \in Dependencies(futures[i].step) :
                    LET given == futures[i].inputs[StepOutputsKey(d)].a
                        recorded == loc.step_outputs[d + 1]
                    IN  /\ Len(given) = Len(recorded)
                        /\ \A n \in 1..Len(given) :
                              /\ given[n].output = recorded[n].output
                              /\ ~recorded[n].success => given[n].output = FailureText
    /\ (pc = "returned" /\ ret.tag = "Ok") =>
          ~Contains(ret.value.final_output,
                    <<"U", "n", "k", "n", "o", "w", "n", " ", "e", "r", "r", "o", "r">>)

\* The first agent of a step failed, the second received the text of the
\* failure as previous_agent_output, and an agent of the step that depends
\* on this step received it in step_1_outputs; the call returned a result.
C33_Witness ==
    /\ pc = "returned" /\ ret.tag = "Ok" /\ Pattern = "Hybrid"
    /\ ~ret.value.success
    /\ \E i, j \in FutureIds :
          /\ i > 1 /\ FailedSoft(i - 1) /\ futures[i - 1].step = 1 /\ futures[i].step = 1
          /\ futures[i].inputs["previous_agent_output"] = JsonString(FailureText)
          /\ futures[j].step = 2
          /\ futures[j].inputs[StepOutputsKey(1)].a[1].output = FailureText

----------------------------------------------------------------------------
\* C34: in the Sequential pattern the ids of the outcomes of a returned
\* result are a prefix of the ids of the children in declaration order: no
\* gap, no repetition.  With break_on_error = true at most one outcome has
\* success = false and it is the last one; the prefix ends there or is the
\* whole list.  With break_on_error = false the prefix is the whole list.
C34_SequentialPrefix ==
    (pc = "returned" /\ ret.tag = "Ok" /\ Pattern = "Sequential") =>
        LET rs == ret.value.child_results
            failed == {k \in 1..Len(rs) : ~rs[k].success}
        IN  /\ Len(rs) <= NChildren
            /\ \A k \in 1..Len(rs) : rs[k].agent_id = config.child_agents[k].id
            /\ config.break_on_error =>
                  /\ Cardinality(failed) <= 1
                  /\ failed \subseteq {Len(rs)}
                  /\ failed = {} => Len(rs) = NChildren
            /\ ~config.break_on_error => Len(rs) = NChildren

\* A Sequential team of three children with break_on_error = true returned
\* the outcomes of the first two: the second failed.
C34_Witness ==
    /\ pc = "returned" /\ ret.tag = "Ok" /\ Pattern = "Sequential"
    /\ config.break_on_error /\ NChildren = 3
    /\ Len(ret.value.child_results) = 2
    /\ ret.value.child_results[1].success
    /\ ~ret.value.child_results[2].success

\* A Sequential team with break_on_error = false returned the outcomes of all
\* its children, the first of them failed.
C34_WholeListAfterFailure ==
    /\ pc = "returned" /\ ret.tag = "Ok" /\ Pattern = "Sequential"
    /\ ~config.break_on_error /\ NChildren = 3
    /\ Len(ret.value.child_results) = 3
    /\ ~ret.value.child_results[1].success

----------------------------------------------------------------------------
\* The futures of child c that were polled: the invocations of the child.
Invocations(c) == {i \in FutureIds : futures[i].child = c /\ Invoked(i)}

\* The outcomes of child c in the result.
OutcomesOf(c) ==
    {k \in 1..Len(ret.value.child_results) :
        ret.value.child_results[k].agent_id = config.child_agents[c].id}

\* The places at which the steps that were executed list child c: the first
\* `upto[k]` places of step k - 1, for each step on record.
OccurrencesIn(c, upto) ==
    {<<k, n>> \in (1..Len(loc.step_outputs)) \X (1..NChildren + 2) :
        /\ n <= Len(Steps[k].agent_ids) /\ n <= upto[k]
        /\ Steps[k].agent_ids[n] = config.child_agents[c].id}

WholeSteps == [k \in 1..Len(loc.step_outputs) |-> Len(Steps[k].agent_ids)]
ReachedInSteps == [k \in 1..Len(loc.step_outputs) |-> Len(loc.step_outputs[k])]

----------------------------------------------------------------------------
\* C36: in the Hybrid pattern, when step k runs, the outcomes of every step
\* j < k are on record, an empty list for a step without agents.  So every
\* dependency the step declares is found: the inputs of the step, and of each
\* of its agents, have the key step_d_outputs for every declared d, with as
\* many entries as step d recorded outcomes.
C36_EarlierStepsAreRecorded ==
    (Pattern = "Hybrid" /\ pc \in {"running", "returned"}) =>
        /\ pc = "running" => Len(loc.step_outputs) = loc.step_idx
        /\ \A d \in Dependencies(loc.step_idx) :
              /\ d < loc.step_idx
              /\ StepOutputsKey(d) \in DOMAIN loc.current_input
              /\ Len(loc.current_input[StepOutputsKey(d)].a) = Len(loc.step_outputs[d + 1])
        /\ \A i \in FutureIds : \A d \in Dependencies(futures[i].step) :
              /\ d < futures[i].step
              /\ StepOutputsKey(d) \in DOMAIN futures[i].inputs
              /\ Len(futures[i].inputs[StepOutputsKey(d)].a) = Len(loc.step_outputs[d + 1])

\* An agent of a step that depends on a step without agents runs with an
\* empty step_0_outputs.
C36_Witness ==
    /\ Pattern = "Hybrid" /\ pc = "running"
    /\ loc.step_idx = 1 /\ Dependencies(1) = {0}
    /\ loc.step_outputs = <<<<>>>>
    /\ \E i \in FutureIds :
          /\ futures[i].step = 1 /\ Invoked(i)
          /\ futures[i].inputs[StepOutputsKey(0)] = JsonArray(<<>>)

----------------------------------------------------------------------------
\* The keys of the declared dependencies of step k.
DeclaredKeys(k) == {StepOutputsKey(d) : d \in Dependencies(k)}

\* C37: in the Hybrid pattern the inputs of a step are built from the inputs
\* of the call.  The first agent of a non-concurrent step, and every agent of
\* a concurrent step, receives the inputs of the call with the keys of the
\* declared dependencies of the step and nothing else: previous_agent_output
\* and previous_agent_id written in an earlier step, and the step_d_outputs
\* of a dependency of an earlier step, are not in it.  A later agent of a
\* non-concurrent step has, besides, the two previous_agent keys of its own
\* step only.
C37_StepContextIsRebuilt ==
    Pattern = "Hybrid" =>
        \A i \in FutureIds :
            LET k == futures[i].step
                given == futures[i].inputs
                first == Steps[k + 1].concurrent \/ i = Min(StepFutures(k))
                own == IF first THEN {} ELSE PreviousKeys
            IN  /\ DOMAIN given = DOMAIN call.inputs \cup DeclaredKeys(k) \cup own
                /\ \A key \in DOMAIN given :
                      IF key \in DeclaredKeys(k)
                      THEN \E d \in Dependencies(k) :
                              /\ key = StepOutputsKey(d)
                              /\ given[key] = JsonArray(dep_outputs(loc.step_outputs[d + 1]))
                      ELSE IF key \in own
                      THEN given[key] \in {JsonString(futures[i - 1].result.v.output),
                                           JsonString(ChildOfFuture(i - 1).id)}
                      ELSE given[key] = call.inputs[key]

\* The call was made with the task alone.  Step 1 wrote the previous_agent
\* keys for its second agent and had step_0_outputs; the agents of step 2,
\* which depends on step 1 only, have the task and step_1_outputs.
C37_Witness ==
    /\ Pattern = "Hybrid" /\ call.inputs = PlainInputs
    /\ \E i, j \in FutureIds :
          /\ futures[i].step = 1
          /\ PreviousKeys \cup {StepOutputsKey(0)} \subseteq DOMAIN futures[i].inputs
          /\ futures[j].step = 2 /\ Dependencies(2) = {1} /\ Invoked(j)
          /\ DOMAIN futures[j].inputs = {"input", StepOutputsKey(1)}

----------------------------------------------------------------------------
\* Human interaction (agent/human/config.rs, agent/human/interaction.rs).
\* The conditions of the configurations below are built by
\* InterventionCondition::new and TerminationCondition::new: use_regex is
\* false and there is no similarity threshold, so that matches() takes its
\* value.contains(pattern) branch.  prefix, memory and
\* include_memory_in_prompts are left out: with prefix = None no code of
\* plan() reads them.

\* InterventionCondition::new and TerminationCondition::new
\* (config.rs:177-184, 222-230).
Condition_new(pattern, field) == [pattern |-> pattern, use_regex |-> FALSE, field |-> field]

\* HumanAgentConfig::default
HumanAgentConfig_default ==
    [intervention_conditions |-> <<>>,
     termination_conditions |-> <<>>,
     max_interventions |-> Some(10),
     input_timeout |-> Some(300),
     default_prompt |-> Some(<<"P", "l", "e", "a", "s", "e", " ", "p", "r", "o", "v", "i", "d", "e", " ", "y", "o", "u", "r", " ", "i", "n", "p", "u", "t", ":">>),
     allow_empty_response |-> FALSE]

\* HumanAgentConfig::validate.  The conditions have no similarity threshold.
HumanAgentConfig_validate(cfg) ==
    LET ic == cfg.intervention_conditions
        tc == cfg.termination_conditions
        bad_ic == {i \in 1..Len(ic) : ic[i].pattern = <<>> \/ ic[i].field = ""}
        bad_tc == {i \in 1..Len(tc) : tc[i].pattern = <<>> \/ tc[i].field = ""}
    IN  IF Len(ic) = 0
        THEN Err(<<"H", "u", "m", "a", "n", " ", "a", "g", "e", "n", "t", " ", "m", "u", "s", "t", " ", "h", "a", "v", "e", " ", "a", "t", " ", "l", "e", "a", "s", "t", " ", "o", "n", "e", " ", "i", "n", "t", "e", "r", "v", "e", "n", "t", "i", "o", "n", " ", "c", "o", "n", "d", "i", "t", "i", "o", "n">>)
        ELSE IF Len(tc) = 0
        THEN Err(<<"H", "u", "m", "a", "n", " ", "a", "g", "e", "n", "t", " ", "m", "u", "s", "t", " ", "h", "a", "v", "e", " ", "a", "t", " ", "l", "e", "a", "s", "t", " ", "o", "n", "e", " ", "t", "e", "r", "m", "i", "n", "a", "t", "i", "o", "n", " ", "c", "o", "n", "d", "i", "t", "i", "o", "n">>)
        ELSE IF bad_ic # {}
        THEN Err(<<"I", "n", "t", "e", "r", "v", "e", "n", "t", "i", "o", "n", " ", "c", "o", "n", "d", "i", "t", "i", "o", "n", " ">> \o u64_to_string(Min(bad_ic) - 1)
                 \o (IF ic[Min(bad_ic)].pattern = <<>> THEN <<" ", "h", "a", "s", " ", "e", "m", "p", "t", "y", " ", "p", "a", "t", "t", "e", "r", "n">>
                     ELSE <<" ", "h", "a", "s", " ", "e", "m", "p", "t", "y", " ", "f", "i", "e", "l", "d">>))
        ELSE IF bad_tc # {}
        THEN Err(<<"T", "e", "r", "m", "i", "n", "a", "t", "i", "o", "n", " ", "c", "o", "n", "d", "i", "t", "i", "o", "n", " ">> \o u64_to_string(Min(bad_tc) - 1)
                 \o (IF tc[Min(bad_tc)].pattern = <<>> THEN <<" ", "h", "a", "s", " ", "e", "m", "p", "t", "y", " ", "p", "a", "t", "t", "e", "r", "n">>
                     ELSE <<" ", "h", "a", "s", " ", "e", "m", "p", "t", "y", " ", "f", "i", "e", "l", "d">>))
        ELSE Ok("unit")

\* InteractionContext::new; with_output, with_error and with_additional are
\* the updates of this record.
InteractionContext_new(input) ==
    [input |-> input, output |-> None, error |-> None, additional |-> NoArgs]

\* InteractionContext::to_map
to_map(context) ==
    LET m1 == [input |-> context.input]
        m2 == IF context.output.some THEN insert(m1, "output", context.output.v) ELSE m1
        m3 == IF context.error.some THEN insert(m2, "error", context.error.v) ELSE m2
    IN  [k \in (DOMAIN m3) \cup (DOMAIN context.additional) |->
            IF k \in DOMAIN context.additional THEN context.additional[k] ELSE m3[k]]

\* InterventionCondition::matches and TerminationCondition::matches for a
\* condition without regex and without threshold (config.rs:203-217, 261-279).
matches(condition, context_map) ==
    /\ condition.field \in DOMAIN context_map
    /\ Contains(context_map[condition.field], condition.pattern)

\* HumanInteractionManager::new
HumanInteractionManager_new(cfg, interface) ==
    [config |-> cfg, interface |-> interface, intervention_count |-> 0]

\* HumanInteractionManager::with_console
with_console(cfg) == HumanInteractionManager_new(cfg, "console")

\* HumanInteractionManager::should_intervene
should_intervene(manager, context) ==
    IF /\ manager.config.max_interventions.some
       /\ manager.intervention_count >= manager.config.max_interventions.v
    THEN FALSE
    ELSE \E i \in 1..Len(manager.config.intervention_conditions) :
            matches(manager.config.intervention_conditions[i], to_map(context))

\* HumanInteractionManager::should_terminate
should_terminate(manager, context) ==
    \E i \in 1..Len(manager.config.termination_conditions) :
        matches(manager.config.termination_conditions[i], to_map(context))

\* A HumanInteractionResult.  interaction_time_ms is left out: no code of
\* the agents reads it.
HumanInteractionResult(response, success, terminated, error) ==
    [response |-> response, success |-> success, terminated |-> terminated,
     error |-> error]

\* What the person at the interface does with a request: an input, an
\* input that is empty, an error of the interface, or nothing before
\* input_timeout.
HumanAnswers == {Ok(<<"g", "o">>), Ok(<<>>), Err(<<"i", "o">>), Pending}

\* HumanInteractionManager::request_human_input, with the answer the
\* interface gets.  manager is the manager after the call, asked the
\* request_input call it made, if it made one.
request_human_input(manager, context, custom_prompt, answer) ==
    LET cfg == manager.config
        prompt == IF custom_prompt.some THEN custom_prompt.v
                  ELSE IF cfg.default_prompt.some THEN cfg.default_prompt.v
                  ELSE <<"P", "l", "e", "a", "s", "e", " ", "p", "r", "o", "v", "i", "d", "e", " ", "y", "o", "u", "r", " ", "i", "n", "p", "u", "t", ":">>
        failed(msg) == HumanInteractionResult(<<>>, FALSE, FALSE, Some(msg))
        request(accepted) ==
            <<[interface |-> manager.interface, prompt |-> prompt, accepted |-> accepted]>>
    IN  IF cfg.max_interventions.some /\ manager.intervention_count >= cfg.max_interventions.v
        THEN [manager |-> manager, asked |-> <<>>,
              result |-> failed(<<"M", "a", "x", "i", "m", "u", "m", " ", "i", "n", "t", "e", "r", "v", "e", "n", "t", "i", "o", "n", "s", " ", "e", "x", "c", "e", "e", "d", "e", "d">>)]
        ELSE IF should_terminate(manager, context)
        THEN [manager |-> manager, asked |-> <<>>,
              result |-> HumanInteractionResult(<<"T", "e", "r", "m", "i", "n", "a", "t", "i", "o", "n", " ", "c", "o", "n", "d", "i", "t", "i", "o", "n", " ", "m", "e", "t">>, TRUE, TRUE, None)]
        ELSE IF answer.tag = "Err"
        THEN [manager |-> manager, asked |-> request(FALSE),
              result |-> failed(<<"I", "n", "p", "u", "t", " ", "e", "r", "r", "o", "r", ":", " ">> \o answer.error)]
        ELSE IF answer.tag = "Pending"
        THEN [manager |-> manager, asked |-> request(FALSE),
              result |-> failed(<<"I", "n", "p", "u", "t", " ", "t", "i", "m", "e", "o", "u", "t">>)]
        ELSE IF answer.value = <<>> /\ ~cfg.allow_empty_response
        THEN [manager |-> manager, asked |-> request(FALSE),
              result |-> failed(<<"E", "m", "p", "t", "y", " ", "r", "e", "s", "p", "o", "n", "s", "e", " ", "n", "o", "t", " ", "a", "l", "l", "o", "w", "e", "d">>)]
        ELSE [manager |-> [manager EXCEPT !.intervention_count = @ + 1],
              asked |-> request(TRUE),
              result |-> HumanInteractionResult(answer.value, TRUE, FALSE, None)]

\* The answers a request can end with: without input_timeout the request
\* ends only when the interface answers.
CanAnswer(cfg, answer) == answer.tag = "Pending" => cfg.input_timeout.some

\* inputs.get("input").and_then(|v| v.as_str()).unwrap_or("")
\* (human/agent.rs:185-189, team_human.rs:156-160).
input_text(inputs) ==
    IF "input" \in DOMAIN inputs /\ inputs["input"].json = "string"
    THEN inputs["input"].s ELSE <<>>

\* HumanAgent::with_interface
HumanAgent_with_interface(cfg, interface) ==
    IF HumanAgentConfig_validate(cfg).tag = "Err"
    THEN Err(OtherError(HumanAgentConfig_validate(cfg).error))
    ELSE Ok([kind |-> "HumanAgent", config |-> cfg,
             interaction_manager |-> HumanInteractionManager_new(cfg, interface)])

\* HumanAgent::new
HumanAgent_new(cfg) == HumanAgent_with_interface(cfg, "console")

\* HumanAgent::plan, called without intermediate steps, with the answer
\* the interface gets.  ConsoleInterface::display_info prints and returns
\* Ok (interaction.rs:131-134).
HumanAgent_plan(agent, inputs, answer) ==
    LET temp_manager == with_console(agent.config)
        context == InteractionContext_new(input_text(inputs))
        r == request_human_input(temp_manager, context, None, answer)
    IN  IF should_terminate(temp_manager, context)
        THEN [ret |-> Ok(Finish(<<"T", "e", "r", "m", "i", "n", "a", "t", "i", "o", "n", " ", "c", "o", "n", "d", "i", "t", "i", "o", "n", " ", "m", "e", "t", " ", "-", " ", "e", "n", "d", "i", "n", "g", " ", "e", "x", "e", "c", "u", "t", "i", "o", "n">>)),
              asked |-> <<>>]
        ELSE IF should_intervene(temp_manager, context)
        THEN [ret |-> IF r.result.terminated THEN Ok(Finish(r.result.response))
                      ELSE IF ~r.result.success
                      THEN Err(OtherError(IF r.result.error.some THEN r.result.error.v
                                          ELSE <<"H", "u", "m", "a", "n", " ", "i", "n", "t", "e", "r", "a", "c", "t", "i", "o", "n", " ", "f", "a", "i", "l", "e", "d">>))
                      ELSE Ok(Finish(r.result.response)),
              asked |-> r.asked]
        ELSE [ret |-> Ok(Finish(<<"P", "r", "o", "c", "e", "s", "s", "e", "d", " ", "i", "n", "p", "u", "t", ":", " ">> \o context.input
                                \o <<".", " ", "N", "o", " ", "h", "u", "m", "a", "n", " ", "i", "n", "t", "e", "r", "v", "e", "n", "t", "i", "o", "n", " ", "r", "e", "q", "u", "i", "r", "e", "d", ".">>)),
              asked |-> <<>>]

\* TeamHumanAgentConfig::new (team_human.rs:37-46).  team_config is the
\* configuration of the team executor, the variable config.
TeamHumanAgentConfig_new(team, human_cfg) ==
    [team_config |-> team, human_config |-> human_cfg,
     intervene_before_team |-> TRUE, intervene_after_team |-> FALSE,
     intervene_on_team_error |-> TRUE]

\* TeamHumanAgentConfig::validate
TeamHumanAgentConfig_validate(cfg) ==
    IF validate(cfg.team_config).tag = "Err" THEN validate(cfg.team_config)
    ELSE IF HumanAgentConfig_validate(cfg.human_config).tag = "Err"
    THEN HumanAgentConfig_validate(cfg.human_config)
    ELSE IF Len(cfg.team_config.child_agents) = 0
    THEN Err(<<"T", "e", "a", "m", "-", "h", "u", "m", "a", "n", " ", "a", "g", "e", "n", "t", " ", "m", "u", "s", "t", " ", "h", "a", "v", "e", " ", "a", "t", " ", "l", "e", "a", "s", "t", " ", "o", "n", "e", " ", "c", "h", "i", "l", "d", " ", "a", "g", "e", "n", "t">>)
    ELSE Ok("unit")

\* TeamHumanAgent::with_interface.  team_executor is the executor of the
\* variables config to completion.
TeamHumanAgent_with_interface(cfg, interface) ==
    IF TeamHumanAgentConfig_validate(cfg).tag = "Err"
    THEN Err(OtherError(TeamHumanAgentConfig_validate(cfg).error))
    ELSE IF TeamExecutor_new(cfg.team_config).tag = "Err"
    THEN TeamExecutor_new(cfg.team_config)
    ELSE Ok([kind |-> "TeamHumanAgent", config |-> cfg,
             interaction_manager |->
                 HumanInteractionManager_new(cfg.human_config, interface)])

\* TeamHumanAgent::new
TeamHumanAgent_new(cfg) == TeamHumanAgent_with_interface(cfg, "console")

\* TeamHumanAgentBuilder::build, from the configuration the builder has
\* assembled and the interface interface(...) has set, if it was called.
TeamHumanAgentBuilder_build(cfg, interface) ==
    IF interface.some THEN TeamHumanAgent_with_interface(cfg, interface.v)
    ELSE TeamHumanAgent_new(cfg)

\* TeamHumanAgent::should_intervene
TeamHumanAgent_should_intervene(agent, context) ==
    should_intervene(with_console(agent.config.human_config), context)

\* TeamHumanAgent::request_human_input
TeamHumanAgent_request_human_input(agent, context, custom_prompt, answer) ==
    request_human_input(with_console(agent.config.human_config), context,
                        custom_prompt, answer)

\* execute_hybrid up to the call of the team executor
\* (team_human.rs:147-181): phase 1.  returned says that execute_hybrid
\* returned before the team ran.
pre_team(agent, inputs, answer) ==
    LET context ==
            [InteractionContext_new(input_text(inputs)) EXCEPT
                !.additional = [phase |-> <<"b", "e", "f", "o", "r", "e", "_", "t", "e", "a", "m">>,
                                team_agents |-> u64_to_string(Len(agent.config.team_config.child_agents))]]
        r == TeamHumanAgent_request_human_input(agent, context,
                                                Some(<<"P", "r", "e", "-", "t", "e", "a", "m", " ", "i", "n", "t", "e", "r", "v", "e", "n", "t", "i", "o", "n", ":">>), answer)
        go_on(current_inputs, final_output, asked) ==
            [returned |-> FALSE, ret |-> NotReturned, asked |-> asked,
             locals |-> [current_inputs |-> current_inputs,
                         final_output |-> final_output,
                         input_text |-> input_text(inputs)]]
    IN  IF agent.config.intervene_before_team /\ TeamHumanAgent_should_intervene(agent, context)
        THEN IF r.result.terminated
             THEN [returned |-> TRUE, ret |-> Ok(r.result.response), asked |-> r.asked,
                   locals |-> NoArgs]
             ELSE IF r.result.success
             THEN go_on(insert(inputs, "human_pre_team_input", JsonString(r.result.response)),
                        <<"P", "r", "e", "-", "t", "e", "a", "m", " ", "h", "u", "m", "a", "n", " ", "i", "n", "p", "u", "t", ":", " ">> \o r.result.response \o <<"\n", "\n">>,
                        r.asked)
             ELSE go_on(inputs, <<>>, r.asked)
        ELSE go_on(inputs, <<>>, <<>>)

\* execute_hybrid from the answer of the team executor on
\* (team_human.rs:184-235): phases 2a and 3.
post_team(agent, locals, team_result, answer) ==
    LET error_context ==
            [InteractionContext_new(locals.input_text) EXCEPT
                !.error = Some(to_string(team_result.error)),
                !.additional = [phase |-> <<"t", "e", "a", "m", "_", "e", "r", "r", "o", "r">>]]
        e == TeamHumanAgent_request_human_input(
                 agent, error_context,
                 Some(<<"T", "e", "a", "m", " ", "e", "x", "e", "c", "u", "t", "i", "o", "n", " ", "f", "a", "i", "l", "e", "d", ".", " ", "H", "o", "w", " ", "s", "h", "o", "u", "l", "d", " ", "w", "e", " ", "p", "r", "o", "c", "e", "e", "d", "?">>), answer)
        final_output ==
            locals.final_output \o <<"T", "e", "a", "m", " ", "e", "x", "e", "c", "u", "t", "i", "o", "n", " ", "c", "o", "m", "p", "l", "e", "t", "e", "d", ":", "\n">>
                \o team_result.value.final_output \o <<"\n", "\n">>
        context ==
            [InteractionContext_new(locals.input_text) EXCEPT
                !.output = Some(team_result.value.final_output),
                !.additional = [phase |-> <<"a", "f", "t", "e", "r", "_", "t", "e", "a", "m">>,
                                team_success |-> debug_bool(team_result.value.success)]]
        r == TeamHumanAgent_request_human_input(agent, context,
                                                Some(<<"P", "o", "s", "t", "-", "t", "e", "a", "m", " ", "i", "n", "t", "e", "r", "v", "e", "n", "t", "i", "o", "n", ":">>), answer)
    IN  IF team_result.tag = "Err"
        THEN IF /\ agent.config.intervene_on_team_error
                /\ TeamHumanAgent_should_intervene(agent, error_context)
             THEN IF e.result.terminated
                  THEN [ret |-> Ok(e.result.response), asked |-> e.asked]
                  ELSE IF e.result.success
                  THEN [ret |-> Ok(locals.final_output
                                   \o <<"T", "e", "a", "m", " ", "e", "r", "r", "o", "r", " ", "h", "a", "n", "d", "l", "e", "d", " ", "b", "y", " ", "h", "u", "m", "a", "n", ":", " ">> \o e.result.response
                                   \o <<"\n", "\n">> \o e.result.response),
                        asked |-> e.asked]
                  ELSE [ret |-> team_result, asked |-> e.asked]
             ELSE [ret |-> team_result, asked |-> <<>>]
        ELSE IF agent.config.intervene_after_team /\ TeamHumanAgent_should_intervene(agent, context)
        THEN IF r.result.terminated
             THEN [ret |-> Ok(r.result.response), asked |-> r.asked]
             ELSE IF r.result.success
             THEN [ret |-> Ok(final_output \o <<"P", "o", "s", "t", "-", "t", "e", "a", "m", " ", "h", "u", "m", "a", "n", " ", "i", "n", "p", "u", "t", ":", " ">> \o r.result.response),
                   asked |-> r.asked]
             ELSE [ret |-> Ok(final_output \o <<"P", "o", "s", "t", "-", "t", "e", "a", "m", " ", "h", "u", "m", "a", "n", " ", "i", "n", "t", "e", "r", "v", "e", "n", "t", "i", "o", "n", " ", "f", "a", "i", "l", "e", "d">>),
                   asked |-> r.asked]
        ELSE [ret |-> Ok(final_output), asked |-> <<>>]

\* TeamHumanAgent::plan (team_human.rs:263-271) on what execute_hybrid
\* returned.
TeamHumanAgent_plan(output) ==
    IF output.tag = "Err" THEN output ELSE Ok(Finish(output.value))

\* The plan() calls a run makes.
MaxPlanCalls == 2

\* A configuration that passes validate: intervention when the input
\* contains "h", termination when it contains "s".
intervening_config(max_interventions, allow_empty_response) ==
    [HumanAgentConfig_default EXCEPT
        !.intervention_conditions = <<Condition_new(<<"h">>, "input")>>,
        !.termination_conditions = <<Condition_new(<<"s">>, "input")>>,
        !.max_interventions = max_interventions,
        !.allow_empty_response = allow_empty_response]

HumanConfigs ==
    {HumanAgentConfig_default, intervening_config(Some(1), TRUE)}
        \cup {intervening_config(m, FALSE) : m \in {None, Some(0), Some(1)}}

\* The teams behind a TeamHumanAgent: Sequential teams whose first child is
\* critical or not.
HumanTeams == {e \in AgentTeams : e.execution_pattern.tag = "Sequential"}

\* The agents the constructors and the builder return, with the console
\* ("console") or with an interface of the application ("custom").
HumanAgents ==
    LET built ==
            {HumanAgent_new(c) : c \in HumanConfigs}
                \cup {HumanAgent_with_interface(c, "custom") : c \in HumanConfigs}
                \cup {TeamHumanAgentBuilder_build(
                          [TeamHumanAgentConfig_new(t, c) EXCEPT !.intervene_after_team = after],
                          interface)
                        : t \in HumanTeams, c \in HumanConfigs, after \in BOOLEAN,
                          interface \in {None, Some("custom")}}
    IN  {a.value : a \in {b \in built : b.tag = "Ok"}}

\* The inputs of plan(): a task that calls for intervention, one that also
\* meets the termination condition, and one that does neither.
HumanInputs ==
    {PlainInputs, [input |-> JsonString(<<"s", "h">>)], [input |-> JsonString(<<"o", "k">>)]}

InitHuman ==
    /\ human \in {HumanState(Some(a)) : a \in HumanAgents}
    /\ config \in HumanTeams
    /\ human.agent.v.kind = "TeamHumanAgent" => config = human.agent.v.config.team_config
    /\ pc = "idle"
    /\ call = NoCall
    /\ futures = <<>>
    /\ loc = LocIdle
    /\ ret = NotReturned
    /\ completion = <<>>
    /\ clock = 0
    /\ memory = MemoryInit

\* HumanAgent::plan is called and the person at the interface answers.
HumanPlan(inputs, answer) ==
    /\ human.agent.some
    /\ human.agent.v.kind = "HumanAgent"
    /\ human.calls < MaxPlanCalls
    /\ CanAnswer(human.agent.v.config, answer)
    /\ LET m == HumanAgent_plan(human.agent.v, inputs, answer)
       IN  human' = [human EXCEPT !.calls = @ + 1, !.asked = @ \o m.asked, !.ret = m.ret]
    /\ UNCHANGED <<config, pc, call, futures, loc, ret, completion, clock, memory>>

\* TeamHumanAgent::plan is called: execute_hybrid runs its phase 1 and
\* calls the team executor, unless the person ends the run.
TeamHumanPlan(inputs, answer) ==
    /\ human.agent.some
    /\ human.agent.v.kind = "TeamHumanAgent"
    /\ human.phase = "idle"
    /\ human.calls < MaxPlanCalls
    /\ pc \in {"idle", "returned"}
    /\ CanAnswer(human.agent.v.config.human_config, answer)
    /\ LET p == pre_team(human.agent.v, inputs, answer)
           m == start(config, p.locals.current_inputs)
       IN  IF p.returned
           THEN /\ human' = [human EXCEPT !.calls = @ + 1, !.asked = @ \o p.asked,
                                          !.ret = TeamHumanAgent_plan(p.ret)]
                /\ UNCHANGED <<pc, call, futures, loc, ret, completion>>
           ELSE /\ human' = [human EXCEPT !.calls = @ + 1, !.asked = @ \o p.asked,
                                          !.ret = NotReturned, !.phase = "team",
                                          !.locals = p.locals]
                /\ futures' = m.futures
                /\ loc' = m.loc
                /\ ret' = m.ret
                /\ pc' = m.pc
                /\ call' = Call(p.locals.current_inputs, FALSE, clock)
                /\ completion' = <<>>
    /\ UNCHANGED <<config, clock, memory>>

\* The team executor has answered: execute_hybrid goes on with its phase
\* 2a or 3 and plan() returns.
TeamHumanResume(answer) ==
    /\ human.phase = "team"
    /\ pc = "returned"
    /\ CanAnswer(human.agent.v.config.human_config, answer)
    /\ LET q == post_team(human.agent.v, human.locals, ret, answer)
       IN  human' = [human EXCEPT !.asked = @ \o q.asked,
                                  !.ret = TeamHumanAgent_plan(q.ret),
                                  !.phase = "idle", !.locals = NoArgs]
    /\ UNCHANGED <<config, pc, call, futures, loc, ret, completion, clock, memory>>

\* The timer of global_timeout is armed by execute_concurrent alone
\* (execution.rs:100-101): it never fires in a Sequential team.
NextHuman ==
    \/ \E inputs \in HumanInputs, answer \in HumanAnswers : HumanPlan(inputs, answer)
    \/ \E inputs \in HumanInputs, answer \in HumanAnswers : TeamHumanPlan(inputs, answer)
    \/ \E answer \in HumanAnswers : TeamHumanResume(answer)
    \/ \E i \in 1..Len(futures) : PlanFinish(i)
    \/ \E i \in 1..Len(futures) : PlanAction(i)
    \/ \E i \in 1..Len(futures) : PlanError(i)
    \/ \E i \in 1..Len(futures) : TimerFires(i)
    \/ Poll

SpecHuman == InitHuman /\ [][NextHuman]_vars

----------------------------------------------------------------------------
\* The configuration of the human side of the agent of the run.
HumanConfigOf ==
    IF human.agent.v.kind = "HumanAgent" THEN human.agent.v.config
    ELSE human.agent.v.config.human_config

\* The interventions carried out so far: the requests whose input was
\* accepted.
Accepted == Cardinality({i \in 1..Len(human.asked) : human.asked[i].accepted})

\* The last plan() failed with the refusal of request_human_input.
Refused == human.ret = Err(OtherError(<<"M", "a", "x", "i", "m", "u", "m", " ", "i", "n", "t", "e", "r", "v", "e", "n", "t", "i", "o", "n", "s", " ", "e", "x", "c", "e", "e", "d", "e", "d">>))

\* C38: for a HumanAgent or a TeamHumanAgent configured with
\* max_interventions = m, the interventions carried out over any sequence of
\* plan() calls never exceed m.
C38_InterventionsWithinLimit ==
    (human.agent.some /\ HumanConfigOf.max_interventions.some)
        => Accepted <= HumanConfigOf.max_interventions.v

\* A HumanAgent with max_interventions = 1 has carried out two
\* interventions in two plan() calls.
C38_Witness ==
    /\ human.agent.some
    /\ human.agent.v.kind = "HumanAgent"
    /\ HumanConfigOf.max_interventions = Some(1)
    /\ human.calls = 2
    /\ Accepted = 2

\* A TeamHumanAgent with max_interventions = 1 carries out two
\* interventions in one plan() call.
C38_TeamHumanExceeds ==
    /\ human.agent.some
    /\ human.agent.v.kind = "TeamHumanAgent"
    /\ HumanConfigOf.max_interventions = Some(1)
    /\ human.calls = 1
    /\ Accepted = 2

\* No plan() is answered with the refusal.
C38_NeverRefused == ~Refused

\* The agent of the run is a TeamHumanAgent that was given an interface of
\* the application, by with_interface or by the builder.
CustomTeamHuman ==
    /\ human.agent.some
    /\ human.agent.v.kind = "TeamHumanAgent"
    /\ human.agent.v.interaction_manager.interface = "custom"

\* The requests made with the prompt of a phase of execute_hybrid.
RequestsOf(prompt) == {i \in 1..Len(human.asked) : human.asked[i].prompt = prompt}

\* C39: a TeamHumanAgent created with a custom interface sends every human
\* input request of its pre-team, team-error and post-team phases to that
\* interface and never to the console.
C39_RequestsGoToCustomInterface ==
    CustomTeamHuman => \A i \in 1..Len(human.asked) : human.asked[i].interface = "custom"

\* A TeamHumanAgent with a custom interface has made a request in each of
\* its three phases, and the console received every one of them.
C39_Witness ==
    /\ CustomTeamHuman
    /\ RequestsOf(<<"P", "r", "e", "-", "t", "e", "a", "m", " ", "i", "n", "t", "e", "r", "v", "e", "n", "t", "i", "o", "n", ":">>) # {}
    /\ RequestsOf(<<"T", "e", "a", "m", " ", "e", "x", "e", "c", "u", "t", "i", "o", "n", " ", "f", "a", "i", "l", "e", "d", ".", " ", "H", "o", "w", " ", "s", "h", "o", "u", "l", "d", " ", "w", "e", " ", "p", "r", "o", "c", "e", "e", "d", "?">>) # {}
    /\ RequestsOf(<<"P", "o", "s", "t", "-", "t", "e", "a", "m", " ", "i", "n", "t", "e", "r", "v", "e", "n", "t", "i", "o", "n", ":">>) # {}
    /\ \A i \in 1..Len(human.asked) : human.asked[i].interface = "console"

\* The custom interface of a TeamHumanAgent receives no request at all.
C39_CustomInterfaceIsNeverAsked ==
    CustomTeamHuman => \A i \in 1..Len(human.asked) : human.asked[i].interface = "console"

====
